---- MODULE Spec2Model ----
(***************************************************************************)
(* Bitcoin anchoring service: the Bitcoin sync task (SyncWithBitcoinTask)  *)
(* and the chain-update task (AnchoringChainUpdateTask) of                 *)
(* src/src/sync/mod.rs, and the on-chain proposal state machine the        *)
(* chain-update task talks to.                                             *)
(*                                                                         *)
(* Spec is the Bitcoin sync task against a growing anchoring chain;        *)
(* SpecUpdate is the chain-update task against the on-chain state machine. *)
(* Each specification keeps the other component's variables constant.      *)
(*                                                                         *)
(* One iteration of SyncWithBitcoinTask::process is a sequence of RPC      *)
(* calls to the host chain (transactions_count, transaction_with_index)    *)
(* and to the Bitcoin relay (transaction_status, send_transaction).  Every *)
(* call is one step of the model: the anchoring chain may grow between two *)
(* steps, and every call may fail with a transport error.                  *)
(*                                                                         *)
(* The relay's answers are a function from transaction ids to statuses.    *)
(* It changes only between two iterations: one iteration asks for the      *)
(* status of any transaction id at most once, so a relay that changes its  *)
(* mind in the middle of an iteration shows the task nothing that some     *)
(* fixed assignment does not show.                                         *)
(***************************************************************************)
EXTENDS Integers, Sequences, FiniteSets, TLC

\* Longest anchoring chain explored.
MaxChainLen == 3
\* Largest number of confirmations the relay reports.
MaxConfirmations == 1

VARIABLES
    chain,                      \* the anchoring chain kept by the host chain
    relay,                      \* the relay's answer for every transaction id
    pc,                         \* position of the task inside process()
    latest_committed_tx_index,  \* argument of the running / last process() call
    index,                      \* local `index`
    transaction,                \* local `transaction`
    last_index,                 \* local `last_index` of find_first_uncommitted_transaction
    chain_len,                  \* local `chain_len` of process, `count` of find_first_...
    result,                     \* what process() returned
    queries,                    \* history: transaction_status calls of this iteration, <<txid, answer>>
    fetched,                    \* history: transaction_with_index calls of this iteration
    sent,                       \* history: send_transaction calls of this iteration
    len_at_call,                \* history: length of the chain when process() was called
    relay_changed,              \* history: the relay changed since process() was called
    send_error                  \* history: the send_transaction call of this iteration failed

\* The caller of the Bitcoin sync task, which feeds the cursor a call returns
\* into the next call.
VARIABLES
    cursor,                     \* the cursor the caller holds
    acknowledged                \* history: the ids the relay reported as known (with
                                \* confirmations, for the funding transaction) in earlier calls

\* The surroundings of a run of the Bitcoin sync task.
VARIABLES
    stable,                     \* the chain has stopped growing, RPC calls succeed and the
                                \* relay keeps what it knows
    handed                      \* history: the ids of the transactions a send_transaction
                                \* call of an earlier iteration handed to the relay

\* State of the anchoring service on the host chain (besides `chain`).
VARIABLES
    height,                     \* height of the last committed host-chain block
    configs,                    \* configurations, sorted by activation height
    funds,                      \* FIFO queue of unspent funding entries
    spent_funds,                \* ids of the funding entries already consumed
    current_proposal,           \* the open proposal with its per-input signatures
    proposal_error,             \* why the last block hook could not build a proposal
    last_tx,                    \* history: the last service transaction and its outcome
    accepted,                   \* history: signatures accepted for the open proposal since it was built
    discarded                   \* history: signatures recorded for the proposal the last step discarded

\* State of the chain-update task.
VARIABLES
    upc,                        \* position of the task inside process()
    task,                       \* the process running / having run the iteration
    proposal_state,             \* answer of anchoring_proposal()
    task_config,                \* local `config`, answer of config()
    keypair,                    \* key chosen by find_private_key
    sign_input_messages,        \* local `sign_input_messages`
    submitted,                  \* history: sign_input calls of this iteration that succeeded
    signing,                    \* history: how the construction of the signatures ended
    update_result,              \* what process() returned
    round                       \* history: the last proposal built, and the validators whose
                                \* own process finished an iteration on it with Ok(())

\* State of the audit of the LECTs, as one node sees it.
VARIABLES
    node_height,                \* state.height()
    lects,                      \* the latest LECT of every validator id, if any
    actual_cfg,                 \* index of the configuration handed to the handler
    genesis_funding_tx,         \* funding_tx of the configuration of height 0
    audit_result,               \* what handle_auditing_state returned
    audit_env                   \* history: the lect picked, the answers of storage and bitcoind

\* The last conversion of a Bitcoin type wrapper.
VARIABLES
    conversion                  \* history: the operation, its argument and its result

locals == <<latest_committed_tx_index, index, transaction, last_index, chain_len>>
history == <<queries, fetched, sent, len_at_call, relay_changed, send_error>>
run == <<cursor, acknowledged>>
environment == <<stable, handed>>
sync_task == <<relay, pc, locals, result, history, run, environment>>
service_state == <<height, configs, funds, spent_funds, current_proposal,
                   proposal_error>>
service == <<service_state, last_tx, accepted, discarded>>
update_task == <<upc, task, proposal_state, task_config, keypair, sign_input_messages,
                 submitted, signing, update_result, round>>
audit == <<node_height, lects, actual_cfg, genesis_funding_tx, audit_result,
           audit_env>>
vars == <<chain, sync_task, service, update_task, audit, conversion>>

----------------------------------------------------------------------------
(* Option<u64> *)
None == [some |-> FALSE]
Some(v) == [some |-> TRUE, value |-> v]

(* Transactions.  Only the id and the id of the transaction spent by the   *)
(* first input (prev_tx_id) matter to the task.                            *)
FundingTxId == 0
NoTransaction == [id |-> -1, prev_tx_id |-> -1]
NotRead == -1

\* The transaction the host chain finalizes at position i (0-based) of the
\* chain: its first input spends the previous entry, entry 0 spends the
\* funding transaction.
AnchoringTx(i) ==
    [id |-> i + 1, prev_tx_id |-> IF i = 0 THEN FundingTxId ELSE i]

TxIds == 0..MaxChainLen

(* TransactionStatus: Unknown | Mempool | Committed(confirmations) *)
Unknown == [kind |-> "Unknown"]
Mempool == [kind |-> "Mempool"]
Committed(n) == [kind |-> "Committed", confirmations |-> n]
Statuses == {Unknown, Mempool} \cup {Committed(n) : n \in 1..MaxConfirmations}

\* TransactionStatus::is_known: true for Mempool and Committed
is_known(status) == status.kind \in {"Mempool", "Committed"}

\* TransactionStatus::confirmations: only Committed carries confirmations
confirmations(status) ==
    IF status.kind = "Committed" THEN Some(status.confirmations) ELSE None

\* The answer logged for a transaction_status call that failed.
RelayError == [kind |-> "Error"]

(* Result<Option<u64>, SyncWithBitcoinError> *)
NotStarted == [tag |-> "NotStarted"]
Running == [tag |-> "Running"]
Ok(v) == [tag |-> "Ok", value |-> v]
ErrClient == [tag |-> "Err", error |-> "Client"]
ErrRelay == [tag |-> "Err", error |-> "Relay"]
ErrInternal == [tag |-> "Err", error |-> "Internal"]
UnconfirmedFundingTransaction(txid) ==
    [tag |-> "Err", error |-> "UnconfirmedFundingTransaction", txid |-> txid]

(* PrivateApi *)
\* transactions_count()
transactions_count == Len(chain)

\* transaction_with_index(i): None when i >= chain_len (i is a u64)
transaction_with_index(i) ==
    IF 0 <= i /\ i < Len(chain) THEN Some(chain[i + 1]) ELSE None

----------------------------------------------------------------------------
(* The anchoring service on the host chain: data                           *)

\* Smallest distance between two anchored heights.
AnchoringInterval == 2
\* Last host-chain height explored.
MaxHeight == 3
\* Longest anchoring chain the service builds.
MaxAnchoringTxs == 2
\* Number of configuration changes explored.
MaxReconfigurations == 1
\* Number of distinct funding transactions explored.
MaxFundingTxs == 2

\* Fee of one anchoring transaction.
TotalFee == 2

\* Bitcoin keys of the nodes; node n owns key n.  Node 5 is never a validator.
Nodes == 1..5

\* The k-th configuration of the service (k = 1 is the genesis one).  The
\* configurations alternate between two validator sets and two intervals.
Configuration(k) ==
    [anchoring_keys |-> IF k % 2 = 1 THEN <<1, 2, 3, 4>> ELSE <<4, 3, 2>>,
     anchoring_interval |-> AnchoringInterval + (k % 2)]

Keys(config) == {config.anchoring_keys[i] : i \in DOMAIN config.anchoring_keys}

\* ::majority_count(count): two thirds plus one
majority_count(count) == (count * 2) \div 3 + 1

\* AnchoringConfig::majority_count
config_majority_count_All(config) == Len(config.anchoring_keys)
config_majority_count(config) == majority_count(Len(config.anchoring_keys))

\* AnchoringConfig::nearest_anchoring_height
nearest_anchoring_height_Identity(config, h) == h
nearest_anchoring_height(config, h) == h - (h % config.anchoring_interval)

\* A funding transaction: one output of `value` paying the address of the
\* configuration `to`.
FundingTx(n, to) ==
    [id |-> [funding |-> n, to |-> to], value |-> IF n = 1 THEN 1 ELSE 4, to |-> to]

\* Sum of the values of a sequence of outputs.
RECURSIVE Total(_)
Total(outputs) ==
    IF outputs = <<>> THEN 0 ELSE Head(outputs).value + Total(Tail(outputs))

\* The anchoring transaction spending `inputs` (the outputs spent, in order),
\* anchoring the block at `block_height` and paying the address of the
\* configuration `to`.  The id stands for the hash of the unsigned content.
AnchoringTransaction(inputs, block_height, to) ==
    [id |-> [inputs |-> [i \in DOMAIN inputs |-> inputs[i].id],
             block_height |-> block_height, to |-> to],
     prev_tx_id |-> inputs[1].id,
     inputs |-> inputs,
     payload |-> Some([block_height |-> block_height]),
     value |-> Total(inputs) - TotalFee,
     to |-> to,
     witness |-> <<>>]

\* Transaction::anchoring_payload
anchoring_payload(tx) == tx.payload

(* AnchoringProposalState *)
ProposalNone == [state |-> "None"]
Available(tx, inputs) == [state |-> "Available", transaction |-> tx, inputs |-> inputs]
InsufficientFunds(balance, total_fee) ==
    [state |-> "InsufficientFunds", balance |-> balance, total_fee |-> total_fee]
NoInitialFunds == [state |-> "NoInitialFunds"]

\* The signature of `key` for input `input` of the transaction `txid`.
Signature(key, txid, input) == [key |-> key, txid |-> txid, input |-> input]

\* SignInput { input, input_signature, txid }
SignInput(input, input_signature, txid) ==
    [input |-> input, input_signature |-> input_signature, txid |-> txid]

\* A chain-update process: the node its private API talks to, and its key pool.
Processes ==
    {[node |-> n, keys |-> {n}] : n \in 1..4}
        \cup {[node |-> 2, keys |-> {2, 3}]}
NoProcess == [node |-> 0, keys |-> {}]

(* Result<(), ChainUpdateError> *)
ErrInsufficientFunds(total_fee, balance) ==
    [tag |-> "Err", error |-> "InsufficientFunds", total_fee |-> total_fee,
     balance |-> balance]
ErrNoInitialFunds == [tag |-> "Err", error |-> "NoInitialFunds"]

\* No answer of the private API yet.
NoAnswer == [state |-> "NoAnswer"]
NoConfig == [anchoring_keys |-> <<>>, anchoring_interval |-> 0]
NoRound == [txid |-> [inputs |-> <<>>, block_height |-> 0, to |-> 0], cfg |-> 1,
            nodes |-> {}]

\* How the construction of the signatures of an iteration ended: not run,
\* done for every input, failed for the input `input`, or not begun because
\* the proposal carries no payload.  `partial` tells that the service had
\* then recorded the key's signature for some inputs of the proposal and not
\* for all of them.
NotSigned == [state |-> "NotRun", input |-> 0, partial |-> FALSE]
Signed(partial) == [state |-> "Signed", input |-> 0, partial |-> partial]
SigningFailed(input) == [state |-> "Failed", input |-> input, partial |-> FALSE]
NoPayload == [state |-> "NoPayload", input |-> 0, partial |-> FALSE]

NoTx == [call |-> "none", outcome |-> "none", repeated |-> FALSE, faults |-> {}]

\* The service right after the genesis block.
ServiceInit ==
    /\ height = 0
    /\ configs = <<[actual_from |-> 0, config |-> Configuration(1)]>>
    /\ funds = <<>>
    /\ spent_funds = {}
    /\ current_proposal = None
    /\ proposal_error = ProposalNone
    /\ last_tx = NoTx
    /\ accepted = {}
    /\ discarded = {}

\* AnchoringChainUpdateTask::new, no iteration made yet
UpdateTaskInit ==
    /\ upc = "idle"
    /\ task = NoProcess
    /\ proposal_state = NoAnswer
    /\ task_config = NoConfig
    /\ keypair = None
    /\ sign_input_messages = <<>>
    /\ submitted = <<>>
    /\ signing = NotSigned
    /\ update_result = NotStarted
    /\ round = NoRound

----------------------------------------------------------------------------
(* The audit of the LECTs: data                                            *)

\* Largest height the audit is run at.
MaxAuditHeight == 4

\* AnchoringNodeConfig::check_lect_frequency
CheckLectFrequency == 2

\* A transaction a validator may record as its LECT: an anchoring
\* transaction carries a payload, a funding transaction pays a multi-sig
\* address (`to`, 0 for none).
LectTx(id, payload, to) == [id |-> id, payload |-> payload, to |-> to]
AnchoringLect == LectTx(<<"anchoring", 0>>, Some([block_height |-> 0]), 1)
FundingLect(to) == LectTx(<<"funding", to>>, None, to)
OtherLect == LectTx(<<"other", 0>>, None, 0)
LectTxs == {AnchoringLect, FundingLect(1), FundingLect(2), OtherLect}

\* TxKind::from
TxKind(tx) ==
    IF anchoring_payload(tx).some THEN "Anchoring"
    ELSE IF tx.to # 0 THEN "Funding"
    ELSE "Other"

\* AnchoringConfig { validators, funding_tx, frequency }: the validators are
\* the anchoring keys, the frequency is the anchoring interval.
AnchoringConfig(k, funding_tx) ==
    [anchoring_keys |-> Configuration(k).anchoring_keys,
     anchoring_interval |-> Configuration(k).anchoring_interval,
     funding_tx |-> funding_tx]

\* cfg.redeem_script(): the multi-sig address of the configuration, which
\* depends on the ordered list of its keys; addresses are numbered like the
\* configurations.
redeem_script_address(cfg) ==
    CHOOSE k \in 1..2 : Configuration(k).anchoring_keys = cfg.anchoring_keys

(* Result<(), ServiceError> of the audit *)
IncorrectLect(reason, tx) ==
    [tag |-> "Err", error |-> "IncorrectLect", reason |-> reason, tx |-> tx]
LectNotFound(h) == [tag |-> "Err", error |-> "LectNotFound", height |-> h]
ErrStorage == [tag |-> "Err", error |-> "Storage"]

NoLect == LectTx(<<"none", 0>>, None, 0)
NoAuditEnv == [lect |-> NoLect, client |-> "NotAsked", storage |-> "Ok"]

\* The node at the genesis block: no validator has recorded a LECT.
AuditInit ==
    /\ node_height = 0
    /\ lects = [validator_id \in 0..3 |-> None]
    /\ actual_cfg = 1
    /\ genesis_funding_tx = FundingLect(1)
    /\ audit_result = NotStarted
    /\ audit_env = NoAuditEnv

(* The Bitcoin type wrappers: data                                         *)

\* Most inputs of a transaction explored.
MaxInputs == 1
\* Longest hex string explored.
MaxHexLen == 6

\* All sequences over S of length at most n.
BoundedSeq(S, n) == UNION {[1..k -> S] : k \in 0..n}

\* Hex digits: the digit of a nibble in lower case is the nibble itself, the
\* upper-case letter of a nibble n >= 10 is n + 16; 99 is a character that is
\* no hex digit.
Nibbles == {0, 1, 10}
Upper(c) == IF c \in 10..15 THEN c + 16 ELSE c
Lower(c) == IF c \in 26..31 THEN c - 16 ELSE c
NoHexDigit == 99
HexChars == Nibbles \cup {Upper(n) : n \in Nibbles} \cup {NoHexDigit}
HexStrings == BoundedSeq(HexChars, MaxHexLen)

\* Bytes made of two of the nibbles.
Bytes == {16 * hi + lo : hi \in Nibbles, lo \in Nibbles}

\* A transaction: its inputs (one byte each) and its lock time.  Only the
\* shape of the consensus encoding is kept: a count, the counted items, and
\* a fixed-size tail.
Transactions == [inputs : BoundedSeq(Bytes, MaxInputs), lock_time : Bytes]
ByteStrings == BoundedSeq(Bytes, MaxInputs + 2)

\* A public key: a point (x, and the parity of y) and whether it is written
\* compressed.
PublicKeys == [compressed : BOOLEAN, x : {0, 1}, odd : BOOLEAN]
KeyByteStrings == BoundedSeq(0..4, 3)

\* anyhow::Error / failure::Error of a failed parse
InvalidEncoding(reason) == [tag |-> "Err", error |-> "InvalidEncoding", reason |-> reason]

NoConversion == [op |-> "none", arg |-> <<>>, result |-> NotStarted]
CodecInit == conversion = NoConversion

----------------------------------------------------------------------------
Positions ==
    {"idle", "p_get", "p_status", "p_count", "p_get_next", "f_count",
     "f_get_last", "f_last_status", "f_walk_get", "f_walk_status",
     "f_get_first", "f_funding_status", "send"}

\* The caller before its first call: it holds no cursor.
RunInit ==
    /\ cursor = None
    /\ acknowledged = {}
    /\ stable = FALSE
    /\ handed = {}

\* An RPC call may fail in transport.
MayFail == ~ stable

TypeOK ==
    /\ chain \in Seq([id : TxIds, prev_tx_id : TxIds])
    /\ Len(chain) <= MaxChainLen
    /\ relay \in [TxIds -> Statuses]
    /\ pc \in Positions
    /\ latest_committed_tx_index \in {None} \cup {Some(i) : i \in 0..MaxChainLen}
    /\ index \in 0..MaxChainLen
    /\ last_index \in 0..MaxChainLen
    /\ chain_len \in {NotRead} \cup 0..MaxChainLen
    /\ len_at_call \in 0..MaxChainLen
    /\ relay_changed \in BOOLEAN
    /\ send_error \in BOOLEAN
    /\ cursor \in {None} \cup {Some(i) : i \in 0..MaxChainLen}
    /\ acknowledged \subseteq TxIds
    /\ stable \in BOOLEAN
    /\ handed \subseteq TxIds

Init ==
    /\ chain = <<>>
    /\ relay \in [TxIds -> Statuses]
    /\ pc = "idle"
    /\ latest_committed_tx_index = None
    /\ index = 0
    /\ transaction = NoTransaction
    /\ last_index = 0
    /\ chain_len = NotRead
    /\ result = NotStarted
    /\ queries = <<>>
    /\ fetched = <<>>
    /\ sent = <<>>
    /\ len_at_call = 0
    /\ relay_changed = FALSE
    /\ send_error = FALSE
    /\ RunInit
    /\ ServiceInit
    /\ UpdateTaskInit
    /\ AuditInit
    /\ CodecInit

----------------------------------------------------------------------------
(* Environment *)

\* The host chain finalizes one more anchoring transaction (append-only).
AppendTransaction ==
    /\ Len(chain) < MaxChainLen
    /\ chain' = Append(chain, AnchoringTx(Len(chain)))
    /\ UNCHANGED <<relay, pc, locals, result, history>>
    /\ UNCHANGED <<service, update_task, audit, conversion, run, environment>>

\* Between two iterations the relay changes its answer for one transaction.
\* The locals of the finished call are dead and its call record describes
\* answers the relay no longer gives: both are dropped, the returned value
\* (which the caller holds) is kept.
ChangeRelay ==
    /\ pc = "idle"
    /\ \E txid \in TxIds, status \in Statuses :
          /\ relay[txid] # status
          /\ relay' = [relay EXCEPT ![txid] = status]
    /\ latest_committed_tx_index' = None
    /\ index' = 0
    /\ transaction' = NoTransaction
    /\ last_index' = 0
    /\ chain_len' = NotRead
    /\ queries' = <<>>
    /\ fetched' = <<>>
    /\ sent' = <<>>
    /\ len_at_call' = 0
    /\ relay_changed' = TRUE
    /\ send_error' = FALSE
    /\ UNCHANGED <<chain, pc, result>>
    /\ UNCHANGED <<service, update_task, audit, conversion>>

RelayChange ==
    /\ ChangeRelay
    /\ UNCHANGED <<run, environment>>

----------------------------------------------------------------------------
(* Steps shared by process and find_first_uncommitted_transaction *)

\* The iteration ends with `r`.
Return(r) ==
    /\ pc' = "idle"
    /\ result' = r

\* get_transaction(i), then continue at `next` with the transaction in the
\* local `transaction`; a missing transaction is an Internal error.
GetTransaction(i, next) ==
    /\ fetched' = Append(fetched, i)
    /\ \/ /\ MayFail
          /\ Return(ErrClient)
          /\ UNCHANGED transaction
       \/ LET tx == transaction_with_index(i) IN
          IF tx.some
          THEN /\ transaction' = tx.value
               /\ pc' = next
               /\ UNCHANGED result
          ELSE /\ Return(ErrInternal)
               /\ UNCHANGED transaction

----------------------------------------------------------------------------
(* process(latest_committed_tx_index) *)

\* The call process(given).
Process(given) ==
    /\ pc = "idle"
    /\ latest_committed_tx_index' = given
    /\ index' = IF given.some THEN given.value ELSE 0
    /\ transaction' = NoTransaction
    /\ last_index' = 0
    /\ chain_len' = NotRead
    /\ result' = Running
    /\ queries' = <<>>
    /\ fetched' = <<>>
    /\ sent' = <<>>
    /\ len_at_call' = Len(chain)
    /\ relay_changed' = FALSE
    /\ send_error' = FALSE
    /\ pc' = IF given.some THEN "p_get" ELSE "f_count"
    /\ UNCHANGED <<chain, relay>>
    /\ UNCHANGED <<service, update_task, audit, conversion>>

\* The caller starts an iteration with a cursor of its choice (the cursor is
\* persisted by the caller, so it may also point past the chain).
StartProcess ==
    /\ \E given \in {None} \cup {Some(i) : i \in 0..MaxChainLen} : Process(given)
    /\ UNCHANGED <<run, environment>>

\* let transaction = self.get_transaction(index)?;
P_GetTransaction ==
    /\ pc = "p_get"
    /\ GetTransaction(index, "p_status")
    /\ UNCHANGED <<chain, relay, latest_committed_tx_index, index, last_index,
                   chain_len, queries, sent, len_at_call, relay_changed, send_error>>
    /\ UNCHANGED <<service, update_task, audit, conversion, run, environment>>

\* if status.is_known() { advance } else { (index, transaction) }
LatestIsKnown_Inverted(status) == ~ is_known(status)
LatestIsKnown_Always(status) == TRUE
LatestIsKnown(status) == is_known(status)

\* let status = self.transaction_status(transaction.id())?;
P_TransactionStatus ==
    /\ pc = "p_status"
    /\ \/ /\ queries' = Append(queries, <<transaction.id, RelayError>>)
          /\ Return(ErrRelay)
          /\ MayFail
       \/ /\ queries' = Append(queries, <<transaction.id, relay[transaction.id]>>)
          /\ pc' = IF LatestIsKnown(relay[transaction.id]) THEN "p_count" ELSE "send"
          /\ UNCHANGED result
    /\ UNCHANGED <<chain, relay, locals, fetched, sent, len_at_call, relay_changed, send_error>>
    /\ UNCHANGED <<service, update_task, audit, conversion, run, environment>>

\* if index + 1 == chain_len { return Ok(Some(index)); }
IsLastTransaction_OffByOne(i, len) == i = len
IsLastTransaction(i, len) == i + 1 = len

\* let index = index + 1;
NextIndex_Same(i) == i
NextIndex_Skip(i) == i + 2
NextIndex(i) == i + 1

\* let chain_len = self.api_client.transactions_count()?.value;
P_TransactionsCount ==
    /\ pc = "p_count"
    /\ \/ /\ MayFail
          /\ Return(ErrClient)
          /\ UNCHANGED <<index, chain_len>>
       \/ /\ chain_len' = transactions_count
          /\ IF IsLastTransaction(index, chain_len')
             THEN /\ Return(Ok(Some(index)))
                  /\ UNCHANGED index
             ELSE /\ index' = NextIndex(index)
                  /\ pc' = "p_get_next"
                  /\ UNCHANGED result
    /\ UNCHANGED <<chain, relay, latest_committed_tx_index, transaction,
                   last_index, history>>
    /\ UNCHANGED <<service, update_task, audit, conversion, run, environment>>

\* (index, self.get_transaction(index)?)
P_GetNextTransaction ==
    /\ pc = "p_get_next"
    /\ GetTransaction(index, "send")
    /\ UNCHANGED <<chain, relay, latest_committed_tx_index, index, last_index,
                   chain_len, queries, sent, len_at_call, relay_changed, send_error>>
    /\ UNCHANGED <<service, update_task, audit, conversion, run, environment>>

\* .map_err(SyncWithBitcoinError::Relay)?; ...; Ok(Some(index))
SendResult_Swallowed(ok, i) == Ok(Some(i))
SendResult(ok, i) == IF ok THEN Ok(Some(i)) ELSE ErrRelay

\* self.btc_relay.send_transaction(&transaction)?; Ok(Some(index))
SendTransaction ==
    /\ pc = "send"
    /\ sent' = Append(sent, transaction)
    /\ \E ok \in {success \in BOOLEAN : success \/ MayFail} :
          /\ send_error' = ~ ok
          /\ Return(SendResult(ok, index))
    /\ UNCHANGED <<chain, relay, locals, queries, fetched, len_at_call, relay_changed>>
    /\ UNCHANGED <<service, update_task, audit, conversion, run, environment>>

----------------------------------------------------------------------------
(* find_first_uncommitted_transaction(), called by process(None) *)

\* if count == 0 { return Ok(None); }
IsEmptyChain_Never(count) == FALSE
IsEmptyChain(count) == count = 0

\* let last_index = { ...; count - 1 };
LastIndex_Count(count) == count
LastIndex(count) == count - 1

\* let count = transactions_count()?; ...; count - 1
\* (process turns the None of find_first_... into Ok(None))
F_TransactionsCount ==
    /\ pc = "f_count"
    /\ \/ /\ MayFail
          /\ Return(ErrClient)
          /\ UNCHANGED <<last_index, chain_len>>
       \/ /\ chain_len' = transactions_count
          /\ IF IsEmptyChain(chain_len')
             THEN /\ Return(Ok(None))
                  /\ UNCHANGED last_index
             ELSE /\ last_index' = LastIndex(chain_len')
                  /\ pc' = "f_get_last"
                  /\ UNCHANGED result
    /\ UNCHANGED <<chain, relay, latest_committed_tx_index, index, transaction,
                   history>>
    /\ UNCHANGED <<service, update_task, audit, conversion, run, environment>>

\* let transaction = self.get_transaction(last_index)?;
F_GetLastTransaction ==
    /\ pc = "f_get_last"
    /\ GetTransaction(last_index, "f_last_status")
    /\ UNCHANGED <<chain, relay, latest_committed_tx_index, index, last_index,
                   chain_len, queries, sent, len_at_call, relay_changed, send_error>>
    /\ UNCHANGED <<service, update_task, audit, conversion, run, environment>>

\* if status.is_known() { return Ok(None); }
TailIsKnown_Inverted(status) == ~ is_known(status)
TailIsKnown(status) == is_known(status)

\* let status = self.transaction_status(transaction.id())?;
\* for index in (1..=last_index).rev() { ... }
F_LastStatus ==
    /\ pc = "f_last_status"
    /\ \/ /\ queries' = Append(queries, <<transaction.id, RelayError>>)
          /\ Return(ErrRelay)
          /\ MayFail
          /\ UNCHANGED index
       \/ /\ queries' = Append(queries, <<transaction.id, relay[transaction.id]>>)
          /\ IF TailIsKnown(relay[transaction.id])
             THEN /\ Return(Ok(None))
                  /\ UNCHANGED index
             ELSE /\ index' = last_index
                  /\ pc' = IF last_index >= 1 THEN "f_walk_get" ELSE "f_get_first"
                  /\ UNCHANGED result
    /\ UNCHANGED <<chain, relay, latest_committed_tx_index, transaction,
                   last_index, chain_len, fetched, sent, len_at_call, relay_changed, send_error>>
    /\ UNCHANGED <<service, update_task, audit, conversion, run, environment>>

\* loop body: let transaction = self.get_transaction(index)?;
F_WalkGetTransaction ==
    /\ pc = "f_walk_get"
    /\ GetTransaction(index, "f_walk_status")
    /\ UNCHANGED <<chain, relay, latest_committed_tx_index, index, last_index,
                   chain_len, queries, sent, len_at_call, relay_changed, send_error>>
    /\ UNCHANGED <<service, update_task, audit, conversion, run, environment>>

\* let previous_tx_id = transaction.prev_tx_id();
previous_tx_id_Own(tx) == tx.id
previous_tx_id(tx) == tx.prev_tx_id

\* if status.is_known() { return Ok(Some((transaction, index))); }
PreviousIsKnown_CommittedOnly(status) == status.kind = "Committed"
PreviousIsKnown(status) == is_known(status)

\* loop body: let status = self.transaction_status(previous_tx_id)?;
F_WalkStatus ==
    /\ pc = "f_walk_status"
    /\ LET txid == previous_tx_id(transaction) IN
       \/ /\ queries' = Append(queries, <<txid, RelayError>>)
          /\ Return(ErrRelay)
          /\ MayFail
          /\ UNCHANGED index
       \/ /\ queries' = Append(queries, <<txid, relay[txid]>>)
          /\ UNCHANGED result
          /\ IF PreviousIsKnown(relay[txid])
             THEN /\ pc' = "send"
                  /\ UNCHANGED index
             ELSE IF index > 1
                  THEN /\ index' = index - 1
                       /\ pc' = "f_walk_get"
                  ELSE /\ pc' = "f_get_first"
                       /\ UNCHANGED index
    /\ UNCHANGED <<chain, relay, latest_committed_tx_index, transaction,
                   last_index, chain_len, fetched, sent, len_at_call, relay_changed, send_error>>
    /\ UNCHANGED <<service, update_task, audit, conversion, run, environment>>

\* let transaction = self.get_transaction(0)?;
F_GetFirstTransaction ==
    /\ pc = "f_get_first"
    /\ GetTransaction(0, "f_funding_status")
    /\ UNCHANGED <<chain, relay, latest_committed_tx_index, index, last_index,
                   chain_len, queries, sent, len_at_call, relay_changed, send_error>>
    /\ UNCHANGED <<service, update_task, audit, conversion, run, environment>>

\* if status.confirmations().is_none() { Err(..) } else { Ok(..) }
FundingIsConfirmed_Known(status) == is_known(status)
FundingIsConfirmed(status) == confirmations(status).some

\* Err(SyncWithBitcoinError::UnconfirmedFundingTransaction(transaction.prev_tx_id()))
FundingError_OwnId(tx) == UnconfirmedFundingTransaction(tx.id)
FundingError(tx) == UnconfirmedFundingTransaction(tx.prev_tx_id)

\* let status = self.transaction_status(transaction.prev_tx_id())?;
F_FundingStatus ==
    /\ pc = "f_funding_status"
    /\ LET funding_tx_id == transaction.prev_tx_id IN
       \/ /\ queries' = Append(queries, <<funding_tx_id, RelayError>>)
          /\ Return(ErrRelay)
          /\ MayFail
          /\ UNCHANGED index
       \/ /\ queries' = Append(queries, <<funding_tx_id, relay[funding_tx_id]>>)
          /\ IF ~ FundingIsConfirmed(relay[funding_tx_id])
             THEN /\ Return(FundingError(transaction))
                  /\ UNCHANGED index
             ELSE /\ index' = 0
                  /\ pc' = "send"
                  /\ UNCHANGED result
    /\ UNCHANGED <<chain, relay, latest_committed_tx_index, transaction,
                   last_index, chain_len, fetched, sent, len_at_call, relay_changed, send_error>>
    /\ UNCHANGED <<service, update_task, audit, conversion, run, environment>>

----------------------------------------------------------------------------
Next ==
    \/ AppendTransaction
    \/ RelayChange
    \/ StartProcess
    \/ P_GetTransaction
    \/ P_TransactionStatus
    \/ P_TransactionsCount
    \/ P_GetNextTransaction
    \/ SendTransaction
    \/ F_TransactionsCount
    \/ F_GetLastTransaction
    \/ F_LastStatus
    \/ F_WalkGetTransaction
    \/ F_WalkStatus
    \/ F_GetFirstTransaction
    \/ F_FundingStatus

Spec == Init /\ [][Next]_vars

----------------------------------------------------------------------------
(* A run of the Bitcoin sync task: the caller starts without a cursor and  *)
(* gives every call the cursor the last successful call returned           *)

\* The answer to a transaction_status call reports the transaction as known,
\* and the funding transaction as having confirmations.
Acknowledges(query) ==
    IF query[1] = FundingTxId
    THEN query[2].kind = "Committed"
    ELSE query[2].kind \in {"Mempool", "Committed"}

\* The ids the answers of the calls `calls` acknowledge.
Acknowledged(calls) == {calls[j][1] : j \in {k \in DOMAIN calls : Acknowledges(calls[k])}}

\* The cursor the caller holds after the call that returned `r`: the one the
\* call returned, and the one it held when the call failed.
NextCursor_Reset(r, held) == IF r.tag = "Ok" THEN r.value ELSE None
NextCursor(r, held) == IF r.tag = "Ok" THEN r.value ELSE held

\* The caller takes the cursor the last call returned and calls process
\* with it.
CallWithCursor ==
    /\ pc = "idle"
    /\ cursor' = NextCursor(result, cursor)
    /\ Process(cursor')

FeedCursor ==
    /\ CallWithCursor
    /\ acknowledged' = acknowledged \cup Acknowledged(queries)
    /\ UNCHANGED environment

\* Between two iterations of the run the relay changes its answer for one
\* transaction.
RunRelayChange ==
    /\ ChangeRelay
    /\ acknowledged' = acknowledged \cup Acknowledged(queries)
    /\ UNCHANGED <<cursor, environment>>

NextRun ==
    \/ AppendTransaction
    \/ RunRelayChange
    \/ FeedCursor
    \/ P_GetTransaction
    \/ P_TransactionStatus
    \/ P_TransactionsCount
    \/ P_GetNextTransaction
    \/ SendTransaction
    \/ F_TransactionsCount
    \/ F_GetLastTransaction
    \/ F_LastStatus
    \/ F_WalkGetTransaction
    \/ F_WalkStatus
    \/ F_GetFirstTransaction
    \/ F_FundingStatus

SpecRun == Init /\ [][NextRun]_vars

----------------------------------------------------------------------------
(* A run of the Bitcoin sync task whose surroundings become stable: the    *)
(* chain stops growing, RPC calls succeed, and the relay knows for good    *)
(* the funding transaction and every transaction it was sent               *)

\* The id of the transaction the send_transaction call of the finished
\* iteration handed to the relay.
Handed == IF sent # <<>> /\ ~ send_error THEN {sent[Len(sent)].id} ELSE {}

\* The record of the finished call is dropped, as in ChangeRelay, and what
\* it tells about the run is kept.
ForgetCall ==
    /\ pc = "idle"
    /\ handed' = handed \cup Handed
    /\ latest_committed_tx_index' = None
    /\ index' = 0
    /\ transaction' = NoTransaction
    /\ last_index' = 0
    /\ chain_len' = NotRead
    /\ queries' = <<>>
    /\ fetched' = <<>>
    /\ sent' = <<>>
    /\ len_at_call' = 0
    /\ relay_changed' = TRUE
    /\ send_error' = FALSE
    /\ UNCHANGED <<chain, pc, result, cursor, acknowledged>>
    /\ UNCHANGED <<service, update_task, audit, conversion>>

\* Answers of a relay that keeps what it knows: the funding transaction is
\* committed, and a transaction the chain does not have is unknown.
Settled(answers) ==
    /\ answers[FundingTxId].kind = "Committed"
    /\ \A k \in Len(chain)..(MaxChainLen - 1) :
          answers[AnchoringTx(k).id] = Unknown

\* The chain grows while the surroundings are not stable.
Grow ==
    /\ ~ stable
    /\ AppendTransaction

\* The relay changes an answer while the surroundings are not stable.
UnsettledRelayChange ==
    /\ ~ stable
    /\ \E txid \in TxIds, status \in Statuses :
          /\ relay[txid] # status
          /\ relay' = [relay EXCEPT ![txid] = status]
    /\ ForgetCall
    /\ UNCHANGED stable

\* The surroundings become stable: the relay knows the funding transaction
\* and every transaction it was sent.
Stabilize ==
    /\ ~ stable
    /\ stable' = TRUE
    /\ \E answers \in [TxIds -> Statuses] :
          /\ Settled(answers)
          /\ \A txid \in handed \cup Handed : is_known(answers[txid])
          /\ relay' = answers
    /\ ForgetCall

\* The relay, sent a transaction, comes to report it as known.
RelayAccepts ==
    /\ stable
    /\ \E txid \in handed \cup Handed :
          /\ relay[txid] = Unknown
          /\ relay' = [relay EXCEPT ![txid] = Mempool]
    /\ ForgetCall
    /\ UNCHANGED stable

\* The caller calls process with the cursor of the last call.
FairFeedCursor ==
    /\ CallWithCursor
    /\ handed' = handed \cup Handed
    /\ UNCHANGED <<stable, acknowledged>>

\* The steps of the task and of its caller: one sequential process.
Task ==
    \/ FairFeedCursor
    \/ P_GetTransaction
    \/ P_TransactionStatus
    \/ P_TransactionsCount
    \/ P_GetNextTransaction
    \/ SendTransaction
    \/ F_TransactionsCount
    \/ F_GetLastTransaction
    \/ F_LastStatus
    \/ F_WalkGetTransaction
    \/ F_WalkStatus
    \/ F_GetFirstTransaction
    \/ F_FundingStatus

NextRunFair ==
    \/ Grow
    \/ UnsettledRelayChange
    \/ Stabilize
    \/ RelayAccepts
    \/ Task

SpecRunFair ==
    /\ Init
    /\ [][NextRunFair]_vars
    /\ WF_vars(Task)
    /\ SF_vars(Stabilize)
    /\ SF_vars(RelayAccepts)

----------------------------------------------------------------------------
(* Properties of one iteration of the Bitcoin sync task                    *)

\* chain[i] with the 0-based index of the source
Tx(i) == chain[i + 1]

\* process() has returned.
Returned == pc = "idle" /\ result.tag \in {"Ok", "Err"}

\* process() has returned and the relay still answers as it did during the call.
Current == Returned /\ ~ relay_changed

\* No RPC of the iteration failed in transport.
NoTransportError == result \notin {ErrClient, ErrRelay}

\* process(None) has returned after it read a chain length.
ColdStart == Current /\ ~ latest_committed_tx_index.some /\ chain_len # NotRead

\* process(Some(i)) has returned, i being inside the chain at the call.
Steady(i) == Current /\ latest_committed_tx_index = Some(i) /\ i < len_at_call

\* The transaction ids asked of the relay, in the order of the calls.
QueriedIds == [j \in 1..Len(queries) |-> queries[j][1]]

\* Every chain transaction the iteration saw is Unknown to the relay.
AllChainUnknown == \A j \in 0..(chain_len - 1) : relay[Tx(j).id] = Unknown

\* Ids of chain[hi], chain[hi-1], ..., chain[lo]
IdsDown(hi, lo) == [j \in 1..(hi - lo + 1) |-> Tx(hi + 1 - j).id]

\* Indices hi, hi-1, ..., lo
IndicesDown(hi, lo) == [j \in 1..(hi - lo + 1) |-> hi + 1 - j]

Max(S) == CHOOSE x \in S : \A y \in S : y <= x
Min(S) == CHOOSE x \in S : \A y \in S : x <= y

\* C1: process(None) on a non-empty chain, every chain transaction and the
\* funding transaction Unknown to the relay: the call fails with
\* UnconfirmedFundingTransaction(chain[0].prev_tx_id) and sends nothing.
C1_UnconfirmedFunding ==
    (/\ ColdStart
     /\ chain_len > 0
     /\ NoTransportError
     /\ AllChainUnknown
     /\ relay[Tx(0).prev_tx_id] = Unknown)
    => /\ result = UnconfirmedFundingTransaction(Tx(0).prev_tx_id)
       /\ sent = <<>>

C1_Witness ==
    /\ ColdStart
    /\ chain_len = 2
    /\ AllChainUnknown
    /\ relay[FundingTxId] = Unknown
    /\ result = UnconfirmedFundingTransaction(FundingTxId)
    /\ Len(queries) = 3

\* C2: process(None) on a non-empty chain of any length, every chain
\* transaction Unknown and the funding transaction Committed: the statuses are
\* asked from the tail downwards (chain[L], ..., chain[0], then the funding
\* transaction), chain[0] is sent exactly once and the call returns Some(0).
C2_ColdStartSendsFirst ==
    (/\ ColdStart
     /\ chain_len > 0
     /\ NoTransportError
     /\ AllChainUnknown
     /\ relay[Tx(0).prev_tx_id].kind = "Committed")
    => /\ QueriedIds = IdsDown(chain_len - 1, 0) \o <<Tx(0).prev_tx_id>>
       /\ sent = <<Tx(0)>>
       /\ result = Ok(Some(0))

C2_Witness ==
    /\ ColdStart
    /\ chain_len = 3
    /\ AllChainUnknown
    /\ QueriedIds = <<Tx(2).id, Tx(1).id, Tx(0).id, FundingTxId>>
    /\ sent = <<Tx(0)>>
    /\ result = Ok(Some(0))

\* C3: process(Some(i)), i inside the chain, chain[i] Unknown to the relay:
\* chain[i] is sent again, exactly once, nothing else is sent and the call
\* returns Some(i).
C3_Retransmit ==
    \A i \in 0..MaxChainLen :
        (/\ Steady(i)
         /\ NoTransportError
         /\ relay[Tx(i).id] = Unknown)
        => /\ sent = <<Tx(i)>>
           /\ result = Ok(Some(i))

C3_Witness ==
    /\ Steady(1)
    /\ Len(chain) = 2
    /\ relay[Tx(1).id] = Unknown
    /\ sent = <<Tx(1)>>
    /\ result = Ok(Some(1))

\* C4: process(Some(i)), chain[i] known to the relay (Mempool or Committed)
\* and i + 1 equal to the chain length the task reads: the call returns
\* Some(i) and sends nothing.
C4_LastKnownNoSend ==
    \A i \in 0..MaxChainLen :
        (/\ Steady(i)
         /\ relay[Tx(i).id].kind \in {"Mempool", "Committed"}
         /\ chain_len = i + 1)
        => /\ result = Ok(Some(i))
           /\ sent = <<>>

C4_Witness ==
    /\ Steady(1)
    /\ relay[Tx(1).id] = Mempool
    /\ chain_len = 2
    /\ result = Ok(Some(1))
    /\ sent = <<>>

\* C5: process(Some(i)), chain[i] known to the relay (Mempool or Committed)
\* and i + 1 below the chain length the task reads: chain[i+1] (not chain[i])
\* is sent exactly once and the call returns Some(i+1).
C5_Advance ==
    \A i \in 0..MaxChainLen :
        (/\ Steady(i)
         /\ NoTransportError
         /\ relay[Tx(i).id].kind \in {"Mempool", "Committed"}
         /\ chain_len > i + 1)
        => /\ sent = <<Tx(i + 1)>>
           /\ result = Ok(Some(i + 1))

C5_Witness ==
    /\ Steady(0)
    /\ relay[Tx(0).id] = Mempool
    /\ chain_len = 3
    /\ sent = <<Tx(1)>>
    /\ result = Ok(Some(1))

\* C6: process(None) on an empty chain (transactions_count answers 0) returns
\* Ok(None) and calls the relay neither for a status nor to send.
C6_EmptyChain ==
    (/\ Returned
     /\ ~ relay_changed
     /\ ~ latest_committed_tx_index.some
     /\ chain_len = 0)
    => /\ result = Ok(None)
       /\ queries = <<>>
       /\ sent = <<>>
       /\ fetched = <<>>

C6_Witness ==
    /\ ColdStart
    /\ chain_len = 0
    /\ result = Ok(None)
    /\ queries = <<>>
    /\ sent = <<>>

\* C7: process(None) on a non-empty chain whose last transaction is reported
\* committed: the call returns Ok(None), asks for no other status and sends
\* nothing.
C7_TailCommitted ==
    (/\ ColdStart
     /\ chain_len > 0
     /\ NoTransportError
     /\ relay[Tx(chain_len - 1).id].kind = "Committed")
    => /\ result = Ok(None)
       /\ QueriedIds = <<Tx(chain_len - 1).id>>
       /\ sent = <<>>

C7_Witness ==
    /\ ColdStart
    /\ chain_len = 3
    /\ relay[Tx(2).id].kind = "Committed"
    /\ relay[Tx(1).id] = Unknown
    /\ result = Ok(None)
    /\ Len(queries) = 1

\* Indices k in 1..L whose predecessor chain[k-1] has a status in `kinds`.
WithPredecessorIn(kinds) ==
    {k \in 1..(chain_len - 1) : relay[Tx(k - 1).id].kind \in kinds}

\* The walk of find_first_uncommitted_transaction stopped at index k: it
\* fetched chain[L] and then chain[L], ..., chain[k], asked the statuses of
\* chain[L], ..., chain[k-1] and nothing below, and chain[k] was selected
\* (sent, and k returned).
WalkStoppedAt(k) ==
    /\ fetched = <<chain_len - 1>> \o IndicesDown(chain_len - 1, k)
    /\ QueriedIds = IdsDown(chain_len - 1, k - 1)
    /\ sent = <<Tx(k)>>
    /\ result = Ok(Some(k))

Uncommitted == {j \in 0..(chain_len - 1) : relay[Tx(j).id].kind # "Committed"}

\* C9: with a confirmed funding transaction and any relay statuses,
\* process(None) selects the lowest index whose transaction is not committed,
\* and selects nothing only when no chain transaction is uncommitted.
C9_FirstUncommitted ==
    (/\ ColdStart
     /\ NoTransportError
     /\ relay[FundingTxId].kind = "Committed")
    => /\ result.tag = "Ok"
       /\ result.value.some =>
             /\ Uncommitted # {}
             /\ result.value.value = Min(Uncommitted)
       /\ ~ result.value.some => Uncommitted = {}

\* C10 as stated: the walk reaches index 0 and the funding transaction has any
\* status but Unknown (Mempool as well as Committed): chain[0] is sent and the
\* call returns Some(0).
C10_Original ==
    (/\ ColdStart
     /\ chain_len > 0
     /\ NoTransportError
     /\ AllChainUnknown
     /\ relay[Tx(0).prev_tx_id] # Unknown)
    => /\ sent = <<Tx(0)>>
       /\ result = Ok(Some(0))

\* C10 (amended): when the walk reaches index 0, the call fails with
\* UnconfirmedFundingTransaction exactly if the relay reports the funding
\* transaction without confirmations (Unknown or Mempool), and sends nothing
\* then; only for Committed is chain[0] sent and Some(0) returned.
C10_FundingNeedsConfirmations ==
    (/\ ColdStart
     /\ chain_len > 0
     /\ NoTransportError
     /\ AllChainUnknown)
    => IF relay[Tx(0).prev_tx_id].kind = "Committed"
       THEN /\ sent = <<Tx(0)>>
            /\ result = Ok(Some(0))
       ELSE /\ sent = <<>>
            /\ result = UnconfirmedFundingTransaction(Tx(0).prev_tx_id)

C10_Witness ==
    /\ ColdStart
    /\ chain_len = 2
    /\ AllChainUnknown
    /\ relay[FundingTxId] = Mempool
    /\ sent = <<>>
    /\ result = UnconfirmedFundingTransaction(FundingTxId)

----------------------------------------------------------------------------
(* The anchoring service on the host chain: transitions                    *)

\* Index of the configuration active at height h.
ActiveIndex(h) == Max({k \in 1..Len(configs) : configs[k].actual_from <= h})
ActiveConfig(h) == configs[ActiveIndex(h)].config

\* Index of the configuration whose address holds the funds of the chain:
\* the recipient of the last anchoring transaction, the genesis configuration
\* while the chain is empty.
AddressIndex == IF chain = <<>> THEN 1 ELSE chain[Len(chain)].to

\* The output an input spends.
Output(tx) == [id |-> tx.id, value |-> tx.value]

\* Funding entries paying address `a`, oldest first, until `need` is covered.
RECURSIVE TakeFunds(_, _, _)
TakeFunds(queue, a, need) ==
    IF queue = <<>> \/ need <= 0 THEN <<>>
    ELSE IF Head(queue).to = a
         THEN <<Output(Head(queue))>>
                  \o TakeFunds(Tail(queue), a, need - Head(queue).value)
         ELSE TakeFunds(Tail(queue), a, need)

\* Input selection: the first output of the chain's tip, then funding outputs
\* in FIFO order until the fee is covered.
SelectInputs_FundsOnly == TakeFunds(funds, AddressIndex, TotalFee)
SelectInputs ==
    LET tip == IF chain = <<>> THEN <<>> ELSE <<Output(chain[Len(chain)])>> IN
    tip \o TakeFunds(funds, AddressIndex, TotalFee - Total(tip))

\* The height the next regular anchoring transaction anchors: 0 for the
\* first one, then the anchoring height following the last anchored one.
following_anchoring_height_BySpent(config) ==
    (Len(chain) + Cardinality(spent_funds)) * config.anchoring_interval
following_anchoring_height(config) ==
    IF chain = <<>> THEN 0
    ELSE nearest_anchoring_height(
             config, anchoring_payload(chain[Len(chain)]).value.block_height)
         + config.anchoring_interval

\* The proposal the block hook builds at height h.  While the funds of the
\* chain sit at the address of a configuration that is no longer the active
\* one, the proposal is the transfer transaction, which anchors the
\* activation height.
BuildProposal(h) ==
    LET active == ActiveIndex(h)
        transfer == active # AddressIndex
        block_height == IF transfer THEN configs[active].actual_from
                        ELSE following_anchoring_height(ActiveConfig(h))
        inputs == SelectInputs
    IN  IF ~ transfer /\ h < block_height THEN ProposalNone
        ELSE IF inputs = <<>> THEN NoInitialFunds
        ELSE IF Total(inputs) < TotalFee
             THEN InsufficientFunds(Total(inputs), TotalFee)
        ELSE Available(AnchoringTransaction(inputs, block_height, active), inputs)

\* When the service moves on between two iterations of the chain-update
\* task, the record of the finished iteration (dead locals, returned value
\* already seen by the caller) is dropped.
ForgetIteration ==
    IF upc = "idle"
    THEN /\ task' = NoProcess
         /\ proposal_state' = NoAnswer
         /\ task_config' = NoConfig
         /\ keypair' = None
         /\ sign_input_messages' = <<>>
         /\ submitted' = <<>>
         /\ signing' = NotSigned
         /\ update_result' = NotStarted
         /\ UNCHANGED upc
    ELSE UNCHANGED <<upc, task, proposal_state, task_config, keypair,
                     sign_input_messages, submitted, signing, update_result>>

\* A new configuration is scheduled; it activates at the next height.
Reconfigure ==
    /\ Len(configs) <= MaxReconfigurations
    /\ configs[Len(configs)].actual_from <= height
    /\ height < MaxHeight
    /\ configs' = Append(configs, [actual_from |-> height + 1,
                                   config |-> Configuration(Len(configs) + 1)])
    /\ last_tx' = NoTx
    /\ ForgetIteration
    /\ UNCHANGED <<chain, height, funds, spent_funds, current_proposal,
                   proposal_error, accepted, sync_task, audit, conversion, round>>
    /\ discarded' = {}

\* The signature sets a new proposal starts with: none for every input.
FreshSignatures_Carried(inputs) ==
    [i \in DOMAIN inputs |->
        IF current_proposal.some /\ i \in DOMAIN current_proposal.value.signatures
        THEN current_proposal.value.signatures[i] ELSE {}]
FreshSignatures(inputs) == [i \in DOMAIN inputs |-> {}]

\* The signatures recorded for the open proposal.
Recorded(proposal) ==
    UNION {{Signature(k, proposal.tx.id, i - 1) : k \in proposal.signatures[i]} :
              i \in DOMAIN proposal.signatures}

\* The host chain commits a block; the block hook on_block(height) runs.
\* A proposal built under a configuration that is no longer active is
\* discarded; without a proposal the hook tries to build one.
CommitBlock ==
    /\ height < MaxHeight
    /\ height' = height + 1
    /\ LET h == height + 1
           kept == IF current_proposal.some
                      /\ current_proposal.value.cfg # ActiveIndex(h)
                   THEN None ELSE current_proposal
           built == IF Len(chain) < MaxAnchoringTxs
                    THEN BuildProposal(h) ELSE ProposalNone
       IN  /\ discarded' = IF current_proposal.some /\ ~ kept.some
                           THEN Recorded(current_proposal.value) ELSE {}
           /\ IF kept.some
              THEN /\ current_proposal' = kept
                   /\ proposal_error' = ProposalNone
                   /\ UNCHANGED <<round, accepted>>
              ELSE IF built.state = "Available"
              THEN /\ current_proposal' =
                          Some([tx |-> built.transaction,
                                signatures |-> FreshSignatures(built.inputs),
                                cfg |-> ActiveIndex(h)])
                   /\ proposal_error' = ProposalNone
                   /\ round' = [txid |-> built.transaction.id,
                                cfg |-> ActiveIndex(h), nodes |-> {}]
                   /\ accepted' = {}
              ELSE /\ current_proposal' = None
                   /\ proposal_error' = built
                   /\ accepted' = {}
                   /\ UNCHANGED round
    /\ last_tx' = NoTx
    /\ ForgetIteration
    /\ UNCHANGED <<chain, configs, funds, spent_funds, sync_task, audit, conversion>>

\* AddFunds(tx) sent by `sender`.
AddFundsOutcome(sender, tx) ==
    IF sender \notin Keys(ActiveConfig(height)) THEN "UnauthorizedValidator"
    ELSE IF tx.to # AddressIndex THEN "NoSuitableOutput"
    ELSE "Ok"

\* The funding transactions the service has already accepted.
KnownFunds_Unspent == {funds[i].id : i \in DOMAIN funds}
KnownFunds == spent_funds \cup {funds[i].id : i \in DOMAIN funds}

\* History: this AddFunds was accepted before (its funding transaction is in
\* the queue or was spent by an anchoring transaction of the chain).
AddFundsRepeated(tx) ==
    \/ \E i \in DOMAIN funds : funds[i] = tx
    \/ \E e \in DOMAIN chain :
          \E i \in DOMAIN chain[e].inputs : chain[e].inputs[i] = Output(tx)

ExecuteAddFunds(sender, tx) ==
    /\ funds' = IF AddFundsOutcome(sender, tx) = "Ok" /\ tx.id \notin KnownFunds
                THEN Append(funds, tx) ELSE funds
    /\ UNCHANGED <<chain, height, configs, spent_funds, current_proposal,
                   proposal_error, accepted>>
    /\ discarded' = {}

\* The funding transactions are numbered in the order the service first
\* accepts them: the ones accepted so far, and the next one, can be sent.
Sendable(n) == n <= Len(funds) + Cardinality(spent_funds) + 1

\* A validator (node 4) or a node that never is one (node 5) sends AddFunds
\* for a funding transaction.
AddFunds ==
    /\ \E sender \in {4, 5}, n \in 1..MaxFundingTxs, to \in 1..Len(configs) :
          LET tx == FundingTx(n, to) IN
          /\ Sendable(n)
          /\ ExecuteAddFunds(sender, tx)
          /\ last_tx' = [call |-> "AddFunds",
                         outcome |-> AddFundsOutcome(sender, tx),
                         repeated |-> AddFundsRepeated(tx),
                         faults |-> {}]
    /\ UNCHANGED <<sync_task, audit, conversion, update_task>>

\* A validator confirms a funding transaction paying the current address.
FundingConfirmation ==
    /\ \E n \in 1..MaxFundingTxs :
          /\ Sendable(n)
          /\ ExecuteAddFunds(ActiveConfig(height).anchoring_keys[1],
                             FundingTx(n, AddressIndex))
    /\ last_tx' = NoTx
    /\ ForgetIteration
    /\ UNCHANGED <<sync_task, audit, conversion, round>>

\* Does `signature` verify for input `input` of transaction `txid` with the
\* public key `key`?
Verify(signature, key, txid, input) == signature = Signature(key, txid, input)

\* SignInput sent by `sender`: the typed error it is rejected with, or "Ok".
SignInputOutcome_AnyTxId(sender, msg) ==
    IF sender \notin Keys(ActiveConfig(height)) THEN "UnauthorizedValidator"
    ELSE IF ~ current_proposal.some THEN "NoActiveProposal"
    ELSE IF msg.input >= Len(current_proposal.value.tx.inputs) THEN "InputOutOfRange"
    ELSE IF ~ Verify(msg.input_signature, sender, msg.txid, msg.input)
         THEN "BadSignature"
    ELSE "Ok"
SignInputOutcome(sender, msg) ==
    IF sender \notin Keys(ActiveConfig(height)) THEN "UnauthorizedValidator"
    ELSE IF ~ current_proposal.some THEN "NoActiveProposal"
    ELSE IF msg.txid # current_proposal.value.tx.id THEN "WrongTxId"
    ELSE IF msg.input >= Len(current_proposal.value.tx.inputs) THEN "InputOutOfRange"
    ELSE IF ~ Verify(msg.input_signature, sender, msg.txid, msg.input)
         THEN "BadSignature"
    ELSE "Ok"

\* Every input has at least m signatures.
AllSigned(signatures, m) ==
    \A i \in DOMAIN signatures : Cardinality(signatures[i]) >= m

\* The witness of one input: m signatures in validator order.
Witness(config, signers, m) ==
    SubSeq(SelectSeq(config.anchoring_keys, LAMBDA k : k \in signers), 1, m)

\* History: this SignInput was applied before (its signature is recorded in
\* the open proposal or is part of a witness of the chain).
SignInputRepeated(sender, msg) ==
    /\ msg.input_signature = Signature(sender, msg.txid, msg.input)
    /\ \/ /\ current_proposal.some
          /\ current_proposal.value.tx.id = msg.txid
          /\ msg.input + 1 \in DOMAIN current_proposal.value.signatures
          /\ sender \in current_proposal.value.signatures[msg.input + 1]
       \/ \E e \in DOMAIN chain :
             /\ chain[e].id = msg.txid
             /\ msg.input + 1 \in DOMAIN chain[e].witness
             /\ \E j \in DOMAIN chain[e].witness[msg.input + 1] :
                   chain[e].witness[msg.input + 1][j] = sender

\* History: what is wrong with this SignInput.
SignInputFaults(sender, msg) ==
    {f \in {"UnauthorizedValidator", "NoActiveProposal", "WrongTxId",
            "InputOutOfRange", "BadSignature"} :
        \/ f = "UnauthorizedValidator"
              /\ \A i \in DOMAIN ActiveConfig(height).anchoring_keys :
                    ActiveConfig(height).anchoring_keys[i] # sender
        \/ f = "NoActiveProposal" /\ current_proposal = None
        \/ f = "WrongTxId" /\ current_proposal # None
              /\ current_proposal.value.tx.id # msg.txid
        \/ f = "InputOutOfRange" /\ current_proposal # None
              /\ msg.input + 1 \notin DOMAIN current_proposal.value.tx.inputs
        \/ f = "BadSignature"
              /\ msg.input_signature.key # sender}

ExecuteSignInput(sender, msg) ==
    LET outcome == SignInputOutcome(sender, msg) IN
    IF outcome = "Ok"
    THEN LET proposal == current_proposal.value
             signatures == [proposal.signatures EXCEPT
                                ![msg.input + 1] = @ \cup {sender}]
             config == configs[proposal.cfg].config
             m == config_majority_count(config)
             used == {proposal.tx.inputs[i].id : i \in DOMAIN proposal.tx.inputs}
         IN  /\ IF AllSigned(signatures, m)
                THEN /\ chain' = Append(chain,
                            [proposal.tx EXCEPT !.witness =
                                [i \in DOMAIN signatures |->
                                    Witness(config, signatures[i], m)]])
                     /\ funds' = SelectSeq(funds, LAMBDA f : f.id \notin used)
                     /\ spent_funds' = spent_funds
                            \cup {funds[i].id : i \in {j \in DOMAIN funds : funds[j].id \in used}}
                     /\ current_proposal' = None
                     /\ accepted' = {}
                ELSE /\ current_proposal' =
                            Some([proposal EXCEPT !.signatures = signatures])
                     /\ accepted' = accepted \cup {msg.input_signature}
                     /\ UNCHANGED <<chain, funds, spent_funds>>
             /\ discarded' = {}
             /\ UNCHANGED <<height, configs, proposal_error>>
    ELSE discarded' = {} /\ UNCHANGED <<chain, service_state, accepted>>

\* Transaction ids a sender may name: the open proposal, the tip of the
\* chain, and an id that never was a proposal.
NamedTxIds ==
    {[inputs |-> <<>>, block_height |-> 0, to |-> 0]}
        \cup (IF current_proposal.some THEN {current_proposal.value.tx.id} ELSE {})
        \cup (IF chain = <<>> THEN {} ELSE {chain[Len(chain)].id})

\* A node sends a SignInput: for the open proposal, with any input index up
\* to the first one out of range and with its own signature or, for input 0,
\* the signature of another node; or a well-formed one for the tip of the
\* chain or (node 4) for a transaction that never was a proposal.
SendSignInput ==
    /\ \E sender \in Nodes, txid \in NamedTxIds, input \in 0..2,
          key \in Nodes :
          LET msg == SignInput(input, Signature(key, txid, input), txid) IN
          /\ IF current_proposal.some /\ txid = current_proposal.value.tx.id
             THEN /\ input <= Len(current_proposal.value.tx.inputs)
                  /\ \/ key = sender
                     \/ key = (sender % 5) + 1 /\ input = 0
             ELSE /\ key = sender
                  /\ input = 0
                  /\ txid.to = 0 => sender = 4
          /\ ExecuteSignInput(sender, msg)
          /\ last_tx' = [call |-> "SignInput",
                         outcome |-> SignInputOutcome(sender, msg),
                         repeated |-> SignInputRepeated(sender, msg),
                         faults |-> SignInputFaults(sender, msg)]
    /\ UNCHANGED <<sync_task, audit, conversion, update_task>>

----------------------------------------------------------------------------
(* AnchoringChainUpdateTask                                                *)

\* PrivateApi::anchoring_proposal
anchoring_proposal ==
    IF current_proposal.some
    THEN Available(current_proposal.value.tx, current_proposal.value.tx.inputs)
    ELSE proposal_error

\* What the call of anchoring_proposal answers: the state of the service or,
\* from a node that is at fault, the open proposal stripped of its payload.
ProposalAnswers ==
    {anchoring_proposal}
        \cup (IF current_proposal.some
              THEN {Available([current_proposal.value.tx EXCEPT !.payload = None],
                              current_proposal.value.tx.inputs)}
              ELSE {})

\* PrivateApi::config
anchoring_config == ActiveConfig(height)

\* The iteration ends with `r`.
UpdateReturn(r) ==
    /\ upc' = "idle"
    /\ update_result' = r

\* The iteration of a validator's own process on the open proposal counts
\* for the round of that proposal.
RoundWith(process, txid) ==
    IF process.keys = {process.node} /\ current_proposal.some
       /\ current_proposal.value.tx.id = txid /\ round.txid = txid
    THEN [round EXCEPT !.nodes = @ \cup {process.node}] ELSE round

\* A process starts an iteration.
UpdateProcess ==
    /\ upc = "idle"
    /\ \E process \in Processes : task' = process
    /\ upc' = "anchoring_proposal"
    /\ proposal_state' = NoAnswer
    /\ task_config' = NoConfig
    /\ keypair' = None
    /\ sign_input_messages' = <<>>
    /\ submitted' = <<>>
    /\ signing' = NotSigned
    /\ update_result' = Running
    /\ last_tx' = NoTx
    /\ discarded' = {}
    /\ UNCHANGED <<chain, service_state, accepted, sync_task, audit, conversion, round>>

\* ChainUpdateError::InsufficientFunds { balance, total_fee }
InsufficientFundsError_Swapped(state) == ErrInsufficientFunds(state.balance, state.total_fee)
InsufficientFundsError(state) == ErrInsufficientFunds(state.total_fee, state.balance)

\* match self.api_client.anchoring_proposal().map_err(ChainUpdateError::Client)?
U_AnchoringProposal ==
    /\ upc = "anchoring_proposal"
    /\ \/ /\ UpdateReturn(ErrClient)
          /\ UNCHANGED proposal_state
       \/ \E state \in ProposalAnswers :
          /\ proposal_state' = state
          /\ IF state.state = "None" THEN UpdateReturn(Ok(<<>>))
             ELSE IF state.state = "Available"
                  THEN upc' = "handle_proposal" /\ UNCHANGED update_result
             ELSE IF state.state = "InsufficientFunds"
                  THEN UpdateReturn(InsufficientFundsError(state))
             ELSE UpdateReturn(ErrNoInitialFunds)
    /\ last_tx' = NoTx
    /\ discarded' = {}
    /\ UNCHANGED <<chain, service_state, accepted, sync_task, audit, conversion, task,
                   task_config, keypair, sign_input_messages, submitted, signing,
                   round>>

\* find_private_key: the first of the configuration's keys the pool holds
find_private_key_Last(anchoring_keys, key_pool) ==
    LET found == SelectSeq(anchoring_keys, LAMBDA k : k \in key_pool) IN
    IF found = <<>> THEN None ELSE Some(found[Len(found)])
find_private_key_Any(anchoring_keys, key_pool) == Some(Head(anchoring_keys))
find_private_key(anchoring_keys, key_pool) ==
    LET found == SelectSeq(anchoring_keys, LAMBDA k : k \in key_pool) IN
    IF found = <<>> THEN None ELSE Some(Head(found))

\* The SignInput messages of handle_proposal, one per input.
SignInputMessages_SkipFirst(proposal, inputs, key) ==
    [i \in 1..(Len(inputs) - 1) |->
        SignInput(i, Signature(key, proposal.id, i), proposal.id)]
SignInputMessages_Unsigned(proposal, inputs, key) ==
    SelectSeq([i \in 1..Len(inputs) |->
                  SignInput(i - 1, Signature(key, proposal.id, i - 1), proposal.id)],
              LAMBDA msg : ~ SignInputRepeated(key, msg))
SignInputMessages(proposal, inputs, key) ==
    [i \in 1..Len(inputs) |->
        SignInput(i - 1, Signature(key, proposal.id, i - 1), proposal.id)]

\* The service has recorded signatures of `key` for some inputs of the open
\* proposal `proposal`, and not for all of them.
PartlySigned(proposal, key) ==
    /\ current_proposal.some
    /\ current_proposal.value.tx.id = proposal.id
    /\ LET signatures == current_proposal.value.signatures IN
       /\ \E i \in DOMAIN signatures : key \in signatures[i]
       /\ \E i \in DOMAIN signatures : key \notin signatures[i]

\* .collect::<Result<Vec<_>, failure::Error>>() and
\* .map_err(ChainUpdateError::Internal)?: all the messages, or the error when
\* the signature of the input at position `failed` could not be made.
Collect_UpToFailure(messages, failed) ==
    Ok(IF failed.some THEN SubSeq(messages, 1, failed.value - 1) ELSE messages)
Collect(messages, failed) == IF failed.some THEN ErrInternal ELSE Ok(messages)

\* let config = self.anchoring_config()?; then handle_proposal up to the
\* first sign_input call.
U_HandleProposal ==
    /\ upc = "handle_proposal"
    /\ \/ /\ UpdateReturn(ErrClient)
          /\ UNCHANGED <<task_config, keypair, sign_input_messages, signing, round>>
       \/ LET config == anchoring_config
              found == find_private_key(config.anchoring_keys, task.keys)
              proposal == proposal_state.transaction
              messages == SignInputMessages(proposal, proposal_state.inputs,
                                            found.value)
          IN  /\ task_config' = config
              /\ keypair' = found
              /\ IF ~ found.some
                 THEN /\ UpdateReturn(Ok(<<>>))
                      /\ UNCHANGED <<sign_input_messages, signing, round>>
                 ELSE IF ~ anchoring_payload(proposal).some
                 THEN /\ UpdateReturn(ErrInternal)
                      /\ signing' = NoPayload
                      /\ UNCHANGED <<sign_input_messages, round>>
                 ELSE \E failed \in {None} \cup {Some(i) : i \in DOMAIN messages} :
                      LET collected == Collect(messages, failed) IN
                      /\ signing' = IF failed.some THEN SigningFailed(failed.value - 1)
                                    ELSE Signed(PartlySigned(proposal, found.value))
                      /\ IF collected.tag = "Err"
                         THEN /\ UpdateReturn(collected)
                              /\ UNCHANGED <<sign_input_messages, round>>
                         ELSE /\ sign_input_messages' = collected.value
                              /\ IF collected.value = <<>>
                                 THEN /\ UpdateReturn(Ok(<<>>))
                                      /\ round' = RoundWith(task, proposal.id)
                                 ELSE /\ upc' = "sign_input"
                                      /\ UNCHANGED <<update_result, round>>
    /\ last_tx' = NoTx
    /\ discarded' = {}
    /\ UNCHANGED <<chain, service_state, accepted, sync_task, audit, conversion, task,
                   proposal_state, submitted>>

\* self.api_client.sign_input(sign_input).map_err(ChainUpdateError::Client)?
\* for the next message; the host chain executes the transaction.
U_SignInput ==
    /\ upc = "sign_input"
    /\ LET msg == sign_input_messages[Len(submitted) + 1] IN
       \/ /\ UpdateReturn(ErrClient)
          /\ \/ /\ discarded' = {}
                /\ UNCHANGED <<chain, service_state, accepted>>
             \/ ExecuteSignInput(task.node, msg)
          /\ last_tx' = NoTx
          /\ UNCHANGED <<submitted, round>>
       \/ /\ ExecuteSignInput(task.node, msg)
          /\ last_tx' = NoTx
          /\ submitted' = Append(submitted, msg)
          /\ IF Len(submitted) + 1 = Len(sign_input_messages)
             THEN /\ UpdateReturn(Ok(<<>>))
                  /\ round' = RoundWith(task, msg.txid)
             ELSE UNCHANGED <<upc, update_result, round>>
    /\ UNCHANGED <<sync_task, audit, conversion, task, proposal_state, task_config, keypair,
                   sign_input_messages, signing>>

----------------------------------------------------------------------------
InitUpdate ==
    /\ chain = <<>>
    /\ relay = [txid \in TxIds |-> Unknown]
    /\ pc = "idle"
    /\ latest_committed_tx_index = None
    /\ index = 0
    /\ transaction = NoTransaction
    /\ last_index = 0
    /\ chain_len = NotRead
    /\ result = NotStarted
    /\ queries = <<>>
    /\ fetched = <<>>
    /\ sent = <<>>
    /\ len_at_call = 0
    /\ relay_changed = FALSE
    /\ send_error = FALSE
    /\ RunInit
    /\ ServiceInit
    /\ UpdateTaskInit
    /\ AuditInit
    /\ CodecInit

\* The service driven by arbitrary transactions.
NextService ==
    \/ Reconfigure
    \/ CommitBlock
    \/ AddFunds
    \/ SendSignInput

SpecService == InitUpdate /\ [][NextService]_vars

\* The service driven by the chain-update tasks of the nodes.
NextUpdate ==
    \/ Reconfigure
    \/ CommitBlock
    \/ FundingConfirmation
    \/ UpdateProcess
    \/ U_AnchoringProposal
    \/ U_HandleProposal
    \/ U_SignInput

SpecUpdate == InitUpdate /\ [][NextUpdate]_vars

----------------------------------------------------------------------------
(* Properties of one iteration of the chain-update task                    *)

\* process() of the chain-update task has returned.
UpdateReturned == upc = "idle" /\ update_result.tag \in {"Ok", "Err"}

\* The keys of the configuration read by the iteration that the pool holds,
\* as positions in the configuration's key list.
HeldPositions ==
    {i \in DOMAIN task_config.anchoring_keys :
        task_config.anchoring_keys[i] \in task.keys}

\* C11: when anchoring_proposal() answers InsufficientFunds{balance, total_fee}
\* process returns ChainUpdateError::InsufficientFunds with the same balance
\* and the same total_fee, when it answers NoInitialFunds process returns
\* ChainUpdateError::NoInitialFunds, and in both cases no SignInput is
\* submitted.
C11_FundingErrors ==
    UpdateReturned =>
        /\ proposal_state.state = "InsufficientFunds" =>
              /\ update_result.tag = "Err"
              /\ update_result.error = "InsufficientFunds"
              /\ update_result.balance = proposal_state.balance
              /\ update_result.total_fee = proposal_state.total_fee
              /\ submitted = <<>>
        /\ proposal_state.state = "NoInitialFunds" =>
              /\ update_result = [tag |-> "Err", error |-> "NoInitialFunds"]
              /\ submitted = <<>>

C11_Witness ==
    /\ UpdateReturned
    /\ proposal_state.state = "InsufficientFunds"
    /\ proposal_state.balance # proposal_state.total_fee
    /\ update_result.error = "InsufficientFunds"

\* C12: when the proposal is Available{transaction, inputs}, the key pool
\* holds a key of the configuration, the signer signs every input and every
\* RPC succeeds, process returns Ok(()) after one sign_input call per input
\* in ascending input order 0..n-1, each carrying the proposal's id, its own
\* input index and the signature of the first key of the configuration (in
\* configuration order) that the pool holds.
C12_SignsEveryInput ==
    (/\ UpdateReturned
     /\ proposal_state.state = "Available"
     /\ task_config # NoConfig
     /\ HeldPositions # {}
     /\ update_result \notin {ErrClient, ErrInternal})
    => LET key == task_config.anchoring_keys[Min(HeldPositions)]
           txid == proposal_state.transaction.id
       IN  /\ update_result = Ok(<<>>)
           /\ Len(submitted) = Len(proposal_state.inputs)
           /\ \A i \in DOMAIN submitted :
                 submitted[i] = [input |-> i - 1, txid |-> txid,
                                 input_signature |->
                                     [key |-> key, txid |-> txid, input |-> i - 1]]

C12_Witness ==
    /\ UpdateReturned
    /\ update_result = Ok(<<>>)
    /\ proposal_state.state = "Available"
    /\ Len(proposal_state.inputs) = 2
    /\ Len(submitted) = 2
    /\ Cardinality(HeldPositions) = 2

\* C13: process returns Ok(()) without submitting a SignInput when the
\* proposal state is None, and when it is Available but the pool holds none
\* of the configuration's anchoring keys.
C13_NothingToSign ==
    (/\ UpdateReturned
     /\ \/ proposal_state.state = "None"
        \/ /\ proposal_state.state = "Available"
           /\ task_config # NoConfig
           /\ HeldPositions = {})
    => /\ update_result = Ok(<<>>)
       /\ submitted = <<>>

C13_Witness ==
    /\ UpdateReturned
    /\ proposal_state.state = "Available"
    /\ task_config # NoConfig
    /\ task.keys # {}
    /\ HeldPositions = {}
    /\ update_result = Ok(<<>>)

\* A started iteration of the chain-update task runs to its end.
SpecUpdateFair ==
    SpecUpdate /\ WF_vars(U_AnchoringProposal \/ U_HandleProposal \/ U_SignInput)

\* The process that holds the keys of two validators.
TwoKeyProcess == [node |-> 2, keys |-> {2, 3}]

\* The two-key process has finished an iteration on a proposal that is still
\* open, under a configuration both of its keys belong to.
TwoKeyIterationDone ==
    /\ UpdateReturned
    /\ task = TwoKeyProcess
    /\ update_result = Ok(<<>>)
    /\ proposal_state.state = "Available"
    /\ current_proposal.some
    /\ current_proposal.value.tx.id = proposal_state.transaction.id
    /\ TwoKeyProcess.keys \subseteq Keys(task_config)

\* The two-key process has submitted a SignInput signed with `key`.
SubmittedWith(key) ==
    /\ task = TwoKeyProcess
    /\ submitted # <<>>
    /\ submitted[1].input_signature.key = key

C15_RoundsFinalize ==
    /\ Cardinality(round.nodes)
            >= majority_count(Len(configs[round.cfg].config.anchoring_keys))
        => /\ chain # <<>>
           /\ chain[Len(chain)].id = round.txid
    /\ Len(configs) = 1 =>
            \A i \in 0..(Len(chain) - 1) :
                anchoring_payload(chain[i + 1]).value.block_height
                    = i * configs[1].config.anchoring_interval

C15_Witness ==
    /\ Len(configs) = 1
    /\ Len(chain) = 2
    /\ chain[2].id = round.txid
    /\ Cardinality(round.nodes) >= 3
    /\ anchoring_payload(chain[2]).value.block_height
            = configs[1].config.anchoring_interval

----------------------------------------------------------------------------
(* Properties of the proposal state machine                                *)

\* The quorum of n validators: floor(2n/3) + 1.
Quorum(n) == (2 * n) \div 3 + 1

\* The elements of a sequence.
Range(seq) == {seq[i] : i \in DOMAIN seq}

\* The validators of the configuration a transaction was built under (the
\* configuration it pays to).
BuiltUnder(tx) == configs[tx.to].config.anchoring_keys

\* C16: every entry of the chain carries, for every input, the signatures of
\* exactly M distinct validators of the configuration it was built under,
\* M = floor(2N/3) + 1; and an open proposal has an input with fewer than M
\* signatures.
C16_Quorum ==
    /\ \A e \in DOMAIN chain :
          /\ DOMAIN chain[e].witness = DOMAIN chain[e].inputs
          /\ \A i \in DOMAIN chain[e].witness :
                /\ Len(chain[e].witness[i]) = Quorum(Len(BuiltUnder(chain[e])))
                /\ Cardinality(Range(chain[e].witness[i]))
                        = Len(chain[e].witness[i])
                /\ Range(chain[e].witness[i]) \subseteq Range(BuiltUnder(chain[e]))
    /\ current_proposal.some =>
          \E i \in DOMAIN current_proposal.value.signatures :
              Cardinality(current_proposal.value.signatures[i])
                  < Quorum(Len(BuiltUnder(current_proposal.value.tx)))

C16_Witness ==
    /\ chain # <<>>
    /\ Len(BuiltUnder(chain[1])) = 4
    /\ Len(chain[1].witness[1]) = 3
    /\ current_proposal.some
    /\ \E i \in DOMAIN current_proposal.value.signatures :
          Cardinality(current_proposal.value.signatures[i]) = 2

\* Every entry but the first spends output 0 of the entry before it.
Linked ==
    \A e \in 2..Len(chain) :
        /\ chain[e].inputs[1] = [id |-> chain[e - 1].id, value |-> chain[e - 1].value]
        /\ chain[e].prev_tx_id = chain[e - 1].id

\* C17: in every state reached by AddFunds, SignInput, block hooks and
\* reconfigurations, the first input of chain[i] spends output 0 of
\* chain[i-1]; and the chain is append-only.
C17_ChainLinkage ==
    /\ []Linked
    /\ [][/\ Len(chain') >= Len(chain)
          /\ SubSeq(chain', 1, Len(chain)) = chain]_vars

C17_Witness ==
    /\ Len(chain) = 2
    /\ Len(configs) = 2
    /\ chain[2].to = 2
    /\ chain[2].prev_tx_id = chain[1].id
    /\ Len(chain[1].inputs) = 2

\* The height an entry anchors.
AnchoredHeight(e) == chain[e].payload.value.block_height

\* The entry moves the funds to the address of another configuration.
IsTransfer(e) == chain[e].to # (IF e = 1 THEN 1 ELSE chain[e - 1].to)

\* The anchoring interval of the configuration active at height h.
IntervalAt(h) ==
    LET active == {k \in DOMAIN configs : configs[k].actual_from <= h}
        last == CHOOSE k \in active : \A j \in active : j <= k
    IN  configs[last].config.anchoring_interval

\* C18: the anchored heights never decrease along the chain, and the height
\* of an entry is a multiple of the anchoring interval active at that height,
\* except for a transfer transaction of a reconfiguration, whose height is
\* the activation height of the configuration it pays to.
C18_PayloadMonotone ==
    /\ \A e \in 2..Len(chain) : AnchoredHeight(e) >= AnchoredHeight(e - 1)
    /\ \A e \in DOMAIN chain :
          IF IsTransfer(e)
          THEN AnchoredHeight(e) = configs[chain[e].to].actual_from
          ELSE AnchoredHeight(e) % IntervalAt(AnchoredHeight(e)) = 0

C18_Witness ==
    /\ Len(chain) = 2
    /\ IsTransfer(1)
    /\ ~ IsTransfer(2)
    /\ AnchoredHeight(1) % IntervalAt(AnchoredHeight(1)) # 0
    /\ AnchoredHeight(2) > 0

\* C19: a SignInput that was applied before, and an AddFunds whose funding
\* transaction was accepted before, leave the state of the service unchanged.
C19_Idempotent ==
    [][last_tx'.repeated => UNCHANGED <<chain, service_state>>]_vars

C19_Witness ==
    /\ last_tx.call = "SignInput"
    /\ last_tx.repeated
    /\ last_tx.outcome = "Ok"
    /\ current_proposal.some

SignInputErrors ==
    {"UnauthorizedValidator", "NoActiveProposal", "WrongTxId",
     "InputOutOfRange", "BadSignature"}

\* C20: a SignInput is rejected, and leaves the state of the service
\* unchanged, when there is no current proposal, when its txid is not the
\* proposal's id, when its input index is out of range, when its signature is
\* bad, and when its sender is no validator of the active configuration; when
\* exactly one of these holds it is rejected with the error of that name.
C20_SignInputRejected ==
    [][last_tx'.call = "SignInput" =>
          /\ last_tx'.faults # {} =>
                /\ last_tx'.outcome \in last_tx'.faults
                /\ UNCHANGED <<chain, service_state>>
          /\ last_tx'.outcome \in SignInputErrors =>
                UNCHANGED <<chain, service_state>>
          /\ last_tx'.faults = {} => last_tx'.outcome = "Ok"]_vars

C20_Witness ==
    /\ last_tx.call = "SignInput"
    /\ last_tx.faults = {"InputOutOfRange"}
    /\ last_tx.outcome = "InputOutOfRange"
    /\ current_proposal.some
    /\ \E i \in DOMAIN current_proposal.value.signatures :
          current_proposal.value.signatures[i] # {}

----------------------------------------------------------------------------
(* Reconfiguration and the open proposal                                   *)

\* The block committed by this step activates a configuration other than the
\* one the open proposal was built under.
SupersededByStep ==
    /\ current_proposal.some
    /\ height' = height + 1
    /\ current_proposal.value.cfg # ActiveIndex(height')

\* The signatures of the witness of a chain entry.
WitnessSignatures(tx) ==
    UNION {{Signature(tx.witness[i][j], tx.id, i - 1) : j \in DOMAIN tx.witness[i]} :
              i \in DOMAIN tx.witness}

\* C21: when the configuration active at the committed height differs from
\* the one the open proposal was built under, the proposal is discarded (the
\* hook leaves no proposal or a new one, built under the active configuration
\* and without any signature); every signature counted for the open proposal
\* was accepted for this very proposal after it was built, so none of the
\* signatures recorded for a discarded proposal is counted for a later one;
\* and the witness of a finalized transaction holds none of them either: all
\* its signatures but the one that completes the quorum were accepted for it.
C21_ReconfigurationDiscards ==
    /\ [][SupersededByStep =>
             /\ discarded' = Recorded(current_proposal.value)
             /\ current_proposal' # current_proposal
             /\ current_proposal'.some =>
                   /\ current_proposal'.value.cfg = ActiveIndex(height')
                   /\ current_proposal'.value.tx.id # current_proposal.value.tx.id
                   /\ Recorded(current_proposal'.value) = {}]_vars
    /\ [](current_proposal.some =>
             /\ Recorded(current_proposal.value) \subseteq accepted
             /\ Recorded(current_proposal.value) \cap discarded = {})
    /\ [][Len(chain') > Len(chain) =>
             /\ Cardinality(WitnessSignatures(chain'[Len(chain')]) \ accepted) <= 1
             /\ WitnessSignatures(chain'[Len(chain')]) \cap discarded = {}]_vars

\* A proposal with recorded signatures was discarded by the last block, and
\* the hook built the transfer proposal of the new configuration.
C21_Witness ==
    /\ discarded # {}
    /\ current_proposal.some
    /\ current_proposal.value.cfg = 2
    /\ Len(configs) = 2

----------------------------------------------------------------------------
(* Determinism of the proposal                                             *)

\* The tip of the chain, if any.
Tip == IF chain = <<>> THEN None ELSE Some(chain[Len(chain)])

\* The configuration active at height h, with its index and activation height.
Active(h) ==
    [index |-> ActiveIndex(h), actual_from |-> configs[ActiveIndex(h)].actual_from,
     config |-> ActiveConfig(h)]

\* The proposal as a function of the tip of the chain, the funds queue, the
\* active configuration and the block height, and of nothing else.
ProposalFrom(tip, queue, active, h) ==
    LET address == IF tip.some THEN tip.value.to ELSE 1
        transfer == active.index # address
        first == IF tip.some THEN <<Output(tip.value)>> ELSE <<>>
        inputs == first \o TakeFunds(queue, address, TotalFee - Total(first))
        anchored == IF tip.some THEN anchoring_payload(tip.value).value.block_height
                    ELSE 0
        block_height ==
            IF transfer THEN active.actual_from
            ELSE IF tip.some
                 THEN anchored - (anchored % active.config.anchoring_interval)
                        + active.config.anchoring_interval
            ELSE 0
    IN  IF ~ transfer /\ h < block_height THEN ProposalNone
        ELSE IF inputs = <<>> THEN NoInitialFunds
        ELSE IF Total(inputs) < TotalFee
             THEN InsufficientFunds(Total(inputs), TotalFee)
        ELSE Available(AnchoringTransaction(inputs, block_height, active.index),
                       inputs)

\* The block hook of this step has no proposal to keep and builds one.
HookBuilds ==
    /\ height' = height + 1
    /\ Len(chain) < MaxAnchoringTxs
    /\ ~ (current_proposal.some /\ current_proposal.value.cfg = ActiveIndex(height'))

----------------------------------------------------------------------------
(* AnchoringHandler::handle_auditing_state                                 *)

\* cfg, the configuration handed to the handler
AuditCfg == AnchoringConfig(actual_cfg, FundingLect(actual_cfg))

\* anchoring_schema.anchoring_config_by_height(0)
anchoring_config_by_height_Actual == AuditCfg
anchoring_config_by_height_0 == AnchoringConfig(1, genesis_funding_tx)

\* cfg.validators.len() as u32 (no list of this model reaches 2^32 entries)
validators_count == Len(AuditCfg.anchoring_keys)

\* The keys of the counting map `lects`: the latest LECTs of the validator
\* ids 0..validators_count-1.
LectEntries ==
    {lects[validator_id].value :
        validator_id \in {v \in 0..(validators_count - 1) : lects[v].some}}

\* The value the counting map holds for `tx`.
LectCount(tx) ==
    Cardinality({v \in 0..(validators_count - 1) : lects[v] = Some(tx)})

\* lects.iter().max_by_key(|&(_, v)| v): an entry with the greatest count;
\* which one among equal counts depends on the iteration order of the map.
MaxByCount == {tx \in LectEntries : \A other \in LectEntries :
                                        LectCount(other) <= LectCount(tx)}

\* *count >= ::majority_count(validators_count as u8)
HasQuorum_Plurality(count) == count >= 1
HasQuorum_Half(count) == 2 * count >= validators_count
HasQuorum(count) == count >= majority_count(validators_count % 256)

\* LectNotFound { height: cfg.nearest_anchoring_height(state.height()) }
LectNotFoundError == LectNotFound(nearest_anchoring_height(AuditCfg, node_height))

\* tx.find_out(&addr)
find_out(tx, addr) == IF tx.to = addr THEN Some(0) ELSE None

\* The checks with access to bitcoind: client.get_transaction(&tx.txid())?
\* answers `client`; without a client there is no check.
ClientCheck(tx, client, reason) ==
    IF client = "NoClient" \/ client = "Found" THEN Ok(<<>>)
    ELSE IF client = "Error" THEN ErrClient
    ELSE IncorrectLect(reason, tx)

\* check_funding_lect
check_funding_lect(tx, client) ==
    LET cfg == anchoring_config_by_height_0
        addr == redeem_script_address(cfg)
    IN  IF tx # cfg.funding_tx
        THEN [result |-> IncorrectLect("Initial funding_tx from cfg is different than in lect", tx),
              client |-> "NotAsked"]
        ELSE IF ~ find_out(tx, addr).some
        THEN [result |-> IncorrectLect("Initial funding_tx has no outputs with address", tx),
              client |-> "NotAsked"]
        ELSE [result |-> ClientCheck(tx, client,
                             "Initial funding_tx not found in the bitcoin blockchain"),
              client |-> client]

\* check_anchoring_lect
check_anchoring_lect(tx, client) ==
    [result |-> ClientCheck(tx, client, "Lect not found in the bitcoin blockchain"),
     client |-> client]

\* The body of handle_auditing_state at an audited height, with `picked` the
\* entry max_by_key returns (NoLect for an empty map).
AuditOutcome(picked, client) ==
    IF picked = NoLect \/ ~ HasQuorum(LectCount(picked))
    THEN [result |-> LectNotFoundError, client |-> "NotAsked"]
    ELSE IF TxKind(picked) = "Anchoring" THEN check_anchoring_lect(picked, client)
    ELSE IF TxKind(picked) = "Funding" THEN check_funding_lect(picked, client)
    ELSE [result |-> IncorrectLect("Incorrect lect transaction", picked),
          client |-> "NotAsked"]

\* if state.height() % self.node.check_lect_frequency == 0
IsAuditedHeight == node_height % CheckLectFrequency = 0

\* One call of handle_auditing_state(cfg, state).
HandleAuditingState ==
    /\ audit_result = NotStarted
    /\ IF ~ IsAuditedHeight
       THEN /\ audit_result' = Ok(<<>>)
            /\ audit_env' = NoAuditEnv
       ELSE \/ /\ audit_result' = ErrStorage
               /\ audit_env' = [NoAuditEnv EXCEPT !.storage = "Error"]
            \/ \E picked \in MaxByCount \cup {NoLect},
                  client \in {"NoClient", "Found", "Absent", "Error"} :
                  /\ picked = NoLect <=> LectEntries = {}
                  /\ LET outcome == AuditOutcome(picked, client) IN
                     /\ audit_result' = outcome.result
                     /\ audit_env' = [lect |-> picked, client |-> outcome.client,
                                      storage |-> "Ok"]
    /\ UNCHANGED <<node_height, lects, actual_cfg, genesis_funding_tx>>
    /\ UNCHANGED <<chain, sync_task, service, update_task, conversion>>

\* The next block is committed.
AuditCommitBlock ==
    /\ node_height < MaxAuditHeight
    /\ node_height' = node_height + 1
    /\ audit_result' = NotStarted
    /\ audit_env' = NoAuditEnv
    /\ UNCHANGED <<lects, actual_cfg, genesis_funding_tx>>
    /\ UNCHANGED <<chain, sync_task, service, update_task, conversion>>

\* A validator records a new latest LECT.
UpdateLect ==
    /\ \E validator_id \in DOMAIN lects, tx \in LectTxs :
          lects' = [lects EXCEPT ![validator_id] = Some(tx)]
    /\ audit_result' = NotStarted
    /\ audit_env' = NoAuditEnv
    /\ UNCHANGED <<node_height, actual_cfg, genesis_funding_tx>>
    /\ UNCHANGED <<chain, sync_task, service, update_task, conversion>>

\* The following configuration becomes the actual one.
AuditReconfigure ==
    /\ actual_cfg <= MaxReconfigurations
    /\ actual_cfg' = actual_cfg + 1
    /\ audit_result' = NotStarted
    /\ audit_env' = NoAuditEnv
    /\ UNCHANGED <<node_height, lects, genesis_funding_tx>>
    /\ UNCHANGED <<chain, sync_task, service, update_task, conversion>>

InitAudit ==
    /\ chain = <<>>
    /\ relay = [txid \in TxIds |-> Unknown]
    /\ pc = "idle"
    /\ latest_committed_tx_index = None
    /\ index = 0
    /\ transaction = NoTransaction
    /\ last_index = 0
    /\ chain_len = NotRead
    /\ result = NotStarted
    /\ queries = <<>>
    /\ fetched = <<>>
    /\ sent = <<>>
    /\ len_at_call = 0
    /\ relay_changed = FALSE
    /\ send_error = FALSE
    /\ RunInit
    /\ ServiceInit
    /\ UpdateTaskInit
    /\ CodecInit
    /\ node_height = 0
    /\ lects = [validator_id \in 0..3 |-> None]
    /\ actual_cfg = 1
    /\ genesis_funding_tx \in {FundingLect(1), FundingLect(2)}
    /\ audit_result = NotStarted
    /\ audit_env = NoAuditEnv

NextAudit ==
    \/ HandleAuditingState
    \/ AuditCommitBlock
    \/ UpdateLect
    \/ AuditReconfigure

SpecAudit == InitAudit /\ [][NextAudit]_vars

----------------------------------------------------------------------------
(* Properties of the audit                                                 *)

\* handle_auditing_state has returned at an audited height, having read the
\* LECTs.
Audited ==
    /\ audit_result # NotStarted
    /\ IsAuditedHeight
    /\ audit_env.storage = "Ok"

\* The validators of the configuration handed to the handler, as validator ids.
ValidatorIds == 0..(Len(AuditCfg.anchoring_keys) - 1)

\* The transactions that are the latest LECT of a quorum of the validators.
QuorumLects ==
    {tx \in LectTxs :
        Cardinality({v \in ValidatorIds : lects[v] = Some(tx)})
            >= Quorum(Cardinality(ValidatorIds))}

\* C23: at an audited height, when no transaction is the latest LECT of at
\* least majority_count(N) of the N validators (no validator having recorded
\* a LECT included), the audit fails with LectNotFound whose height is
\* height - (height mod frequency); and the transaction the audit goes on
\* with is always the latest LECT of a quorum.
C23_AuditQuorum ==
    Audited =>
        /\ QuorumLects = {} =>
              audit_result =
                  LectNotFound(node_height
                                 - (node_height % AuditCfg.anchoring_interval))
        /\ audit_result.tag = "Ok" \/ audit_result.error # "LectNotFound" =>
              audit_env.lect \in QuorumLects

\* Two of four validators hold the same LECT, at a height that is audited
\* and is no anchoring height.
C23_Witness ==
    /\ Audited
    /\ node_height = 2
    /\ Cardinality(ValidatorIds) = 4
    /\ Cardinality({v \in ValidatorIds : lects[v] = Some(AnchoringLect)}) = 2
    /\ audit_result = LectNotFound(0)

\* The answers bitcoind may give, and that there is no client.
ClientAnswers == {"NoClient", "Found", "Absent", "Error"}

\* C32: at most one transaction is the latest LECT of at least
\* M = floor(2N/3) + 1 of the N validators; so whichever of the entries with
\* the greatest count max_by_key returns, the audit ends the same way, and
\* the way it has ended is the one every such entry gives.
C32_UniqueQuorumLect ==
    /\ Cardinality(QuorumLects) <= 1
    /\ \A client \in ClientAnswers :
          \A one \in MaxByCount, other \in MaxByCount :
              AuditOutcome(one, client) = AuditOutcome(other, client)
    /\ \A one \in MaxByCount :
          HasQuorum(LectCount(one)) => MaxByCount = {one} /\ QuorumLects = {one}
    /\ Audited =>
          \A one \in MaxByCount :
              \E client \in ClientAnswers :
                  AuditOutcome(one, client)
                      = [result |-> audit_result, client |-> audit_env.client]

\* Two transactions are each the latest LECT of two of the four validators:
\* max_by_key may return either, and the audit has ended.
C32_Witness ==
    /\ Audited
    /\ Cardinality(ValidatorIds) = 4
    /\ Cardinality(MaxByCount) = 2
    /\ \A tx \in MaxByCount : LectCount(tx) = 2
    /\ audit_result = LectNotFoundError

\* C27: when the quorum LECT is a funding transaction, the audit passes only
\* if it is the funding transaction of the configuration of height 0, has an
\* output paying that configuration's address and, with a Bitcoin client, is
\* found in Bitcoin; when one of these checks fails the audit fails with
\* IncorrectLect for this transaction; a quorum LECT that is neither an
\* anchoring nor a funding transaction yields IncorrectLect too.
C27_FundingLect ==
    Audited /\ audit_env.lect \in QuorumLects =>
        LET tx == audit_env.lect
            genesis == AnchoringConfig(1, genesis_funding_tx)
            incorrect == /\ audit_result.tag = "Err"
                         /\ audit_result.error = "IncorrectLect"
                         /\ audit_result.tx = tx
        IN  /\ TxKind(tx) = "Funding" =>
                  /\ audit_result.tag = "Ok" =>
                        /\ tx = genesis.funding_tx
                        /\ tx.to = 1
                        /\ audit_env.client \in {"NoClient", "Found"}
                  /\ tx # genesis.funding_tx => incorrect
                  /\ tx.to # 1 => incorrect
                  /\ audit_env.client = "Absent" => incorrect
            /\ TxKind(tx) = "Other" => incorrect

\* The quorum LECT is the funding transaction of the genesis configuration,
\* bitcoind knows it, and the audit passes although another configuration
\* with another funding transaction is the actual one.
C27_Witness ==
    /\ Audited
    /\ audit_env.lect \in QuorumLects
    /\ TxKind(audit_env.lect) = "Funding"
    /\ audit_env.client = "Found"
    /\ actual_cfg = 2
    /\ audit_result = Ok(<<>>)

----------------------------------------------------------------------------
(* The wrappers of the Bitcoin types                                       *)

\* bitcoin::consensus::serialize(&self.0)
consensus_serialize(tx) == <<Len(tx.inputs)>> \o tx.inputs \o <<tx.lock_time>>

\* bitcoin::consensus::deserialize(bytes): fails on truncated data and on
\* data that is not consumed entirely
consensus_deserialize_Partial(bytes) ==
    IF bytes = <<>> \/ Len(bytes) < bytes[1] + 2
    THEN InvalidEncoding("unexpected end of data")
    ELSE Ok([inputs |-> SubSeq(bytes, 2, bytes[1] + 1),
             lock_time |-> bytes[bytes[1] + 2]])
consensus_deserialize(bytes) ==
    IF bytes = <<>> \/ Len(bytes) < bytes[1] + 2
    THEN InvalidEncoding("unexpected end of data")
    ELSE IF Len(bytes) > bytes[1] + 2
    THEN InvalidEncoding("data not consumed entirely")
    ELSE Ok([inputs |-> SubSeq(bytes, 2, bytes[1] + 1),
             lock_time |-> bytes[bytes[1] + 2]])

\* hex::encode / ToHex for bytes: two digits per byte
hex_encode(bytes) ==
    [i \in 1..(2 * Len(bytes)) |->
        IF i % 2 = 1 THEN bytes[(i + 1) \div 2] \div 16
        ELSE bytes[i \div 2] % 16]
hex_encode_upper(bytes) ==
    [i \in 1..(2 * Len(bytes)) |-> Upper(hex_encode(bytes)[i])]

\* hex::decode: digits of both cases are accepted
hex_decode(str) ==
    IF Len(str) % 2 = 1 THEN InvalidEncoding("OddLength")
    ELSE IF \E i \in DOMAIN str : str[i] = NoHexDigit
    THEN InvalidEncoding("InvalidHexCharacter")
    ELSE Ok([i \in 1..(Len(str) \div 2) |->
                16 * Lower(str[2 * i - 1]) + Lower(str[2 * i])])

\* BinaryValue::to_bytes, BinaryValue::from_bytes
to_bytes(tx) == consensus_serialize(tx)
from_bytes(value) == consensus_deserialize(value)

\* hex::FromHex::from_hex
from_hex(hex) ==
    LET bytes == hex_decode(hex) IN
    IF bytes.tag = "Err" THEN bytes ELSE consensus_deserialize(bytes.value)

\* hex::ToHex::encode_hex, encode_hex_upper
encode_hex(tx) == hex_encode(consensus_serialize(tx))
encode_hex_upper(tx) == hex_encode_upper(consensus_serialize(tx))

\* Display (via LowerHex) and FromStr
to_string(tx) == encode_hex(tx)
from_str(str) == from_hex(str)

\* serde::Serialize / Deserialize: serde_str, the Display and FromStr forms
serde_serialize(tx) == to_string(tx)
serde_deserialize(str) == from_str(str)

\* ProtobufConvert for btc::Transaction
tx_to_pb(tx) == consensus_serialize(tx)
tx_from_pb(pb) == consensus_deserialize(pb)

\* ProtobufConvert for btc::PublicKey: write_into writes the key compressed
\* or not, as the key says; from_slice tells the form by the length
key_to_pb(key) ==
    IF key.compressed THEN <<IF key.odd THEN 3 ELSE 2, key.x>>
    ELSE <<4, key.x, IF key.odd THEN 1 ELSE 0>>
key_from_pb(pb) ==
    IF Len(pb) = 2
    THEN IF pb[1] \in {2, 3} /\ pb[2] \in {0, 1}
         THEN Ok([compressed |-> TRUE, x |-> pb[2], odd |-> pb[1] = 3])
         ELSE InvalidEncoding("malformed public key")
    ELSE IF Len(pb) = 3
    THEN IF pb[1] = 4 /\ pb[2] \in {0, 1} /\ pb[3] \in {0, 1}
         THEN Ok([compressed |-> FALSE, x |-> pb[2], odd |-> pb[3] = 1])
         ELSE InvalidEncoding("malformed public key")
    ELSE InvalidEncoding("InvalidLength")

\* The forms of a transaction, and of a public key.
Encoders == {"to_bytes", "encode_hex", "encode_hex_upper", "to_string",
             "serde_serialize", "tx_to_pb", "key_to_pb"}
Parsers == {"from_bytes", "from_hex", "from_str", "serde_deserialize",
            "tx_from_pb", "key_from_pb"}

Apply(op, arg) ==
    CASE op = "to_bytes" -> to_bytes(arg)
      [] op = "encode_hex" -> encode_hex(arg)
      [] op = "encode_hex_upper" -> encode_hex_upper(arg)
      [] op = "to_string" -> to_string(arg)
      [] op = "serde_serialize" -> serde_serialize(arg)
      [] op = "tx_to_pb" -> tx_to_pb(arg)
      [] op = "key_to_pb" -> key_to_pb(arg)
      [] op = "from_bytes" -> from_bytes(arg)
      [] op = "from_hex" -> from_hex(arg)
      [] op = "from_str" -> from_str(arg)
      [] op = "serde_deserialize" -> serde_deserialize(arg)
      [] op = "tx_from_pb" -> tx_from_pb(arg)
      [] op = "key_from_pb" -> key_from_pb(arg)

Convert(op, arg) ==
    /\ conversion' = [op |-> op, arg |-> arg, result |-> Apply(op, arg)]
    /\ UNCHANGED <<chain, sync_task, service, update_task, audit>>

\* A transaction is written in one of its forms.
EncodeTransaction ==
    /\ conversion = NoConversion
    /\ \E op \in Encoders \ {"key_to_pb"}, tx \in Transactions : Convert(op, tx)

\* A byte string is read as a transaction.
ParseBytes ==
    /\ conversion = NoConversion
    /\ \E op \in {"from_bytes", "tx_from_pb"}, bytes \in ByteStrings :
          Convert(op, bytes)

\* A string is read as a transaction.
ParseString ==
    /\ conversion = NoConversion
    /\ \E op \in {"from_hex", "from_str", "serde_deserialize"}, str \in HexStrings :
          Convert(op, str)

\* A public key is written.
EncodePublicKey ==
    /\ conversion = NoConversion
    /\ \E key \in PublicKeys : Convert("key_to_pb", key)

\* A byte string is read as a public key.
ParsePublicKey ==
    /\ conversion = NoConversion
    /\ \E pb \in KeyByteStrings : Convert("key_from_pb", pb)

InitCodec ==
    /\ chain = <<>>
    /\ relay = [txid \in TxIds |-> Unknown]
    /\ pc = "idle"
    /\ latest_committed_tx_index = None
    /\ index = 0
    /\ transaction = NoTransaction
    /\ last_index = 0
    /\ chain_len = NotRead
    /\ result = NotStarted
    /\ queries = <<>>
    /\ fetched = <<>>
    /\ sent = <<>>
    /\ len_at_call = 0
    /\ relay_changed = FALSE
    /\ send_error = FALSE
    /\ RunInit
    /\ ServiceInit
    /\ UpdateTaskInit
    /\ AuditInit
    /\ CodecInit

NextCodec ==
    \/ EncodeTransaction
    \/ ParseBytes
    \/ ParseString
    \/ EncodePublicKey
    \/ ParsePublicKey

SpecCodec == InitCodec /\ [][NextCodec]_vars

\* The parser of the form an encoder writes, and the encoders of the form a
\* parser reads.
ParserOf(op) ==
    CASE op = "to_bytes" -> "from_bytes"
      [] op \in {"encode_hex", "encode_hex_upper"} -> "from_hex"
      [] op = "to_string" -> "from_str"
      [] op = "serde_serialize" -> "serde_deserialize"
      [] op = "tx_to_pb" -> "tx_from_pb"
      [] op = "key_to_pb" -> "key_from_pb"
EncoderOf(op) ==
    CASE op = "from_bytes" -> "to_bytes"
      [] op = "from_hex" -> "encode_hex"
      [] op = "from_str" -> "to_string"
      [] op = "serde_deserialize" -> "serde_serialize"
      [] op = "tx_from_pb" -> "tx_to_pb"
      [] op = "key_from_pb" -> "key_to_pb"

\* x was written: reading the result gives x back.
ParseOfEncode ==
    conversion.op \in Encoders =>
        Apply(ParserOf(conversion.op), conversion.result) = Ok(conversion.arg)

\* The well-formed encoding b was read.
WellFormedRead == conversion.op \in Parsers /\ conversion.result.tag = "Ok"

LowerCase(str) == [i \in DOMAIN str |-> Lower(str[i])]
UpperCase(str) == [i \in DOMAIN str |-> Upper(str[i])]

----------------------------------------------------------------------------
(* Failures inside handle_proposal                                         *)

\* The iteration sent its messages through the node whose key signed them.
OwnKey == keypair.some /\ keypair.value = task.node

\* The service still holds the proposal the iteration worked on.
StillOpen ==
    /\ current_proposal.some
    /\ current_proposal.value.tx.id = proposal_state.transaction.id

\* C25: when a sign_input call fails, process returns ChainUpdateError::Client
\* having submitted the messages of the inputs before the failing one and none
\* of a later input; an iteration that then runs to its end submits a message
\* for every input again, in input order, and, the proposal still being open,
\* leaves the key's signature recorded for every input, as an iteration that
\* was never cut short does.
C25_PartialSubmission ==
    /\ (UpdateReturned /\ update_result = ErrClient /\ sign_input_messages # <<>>)
        => /\ Len(submitted) < Len(sign_input_messages)
           /\ submitted = SubSeq(sign_input_messages, 1, Len(submitted))
    /\ (UpdateReturned /\ update_result = Ok(<<>>) /\ signing.state = "Signed")
        => /\ Len(submitted) = Len(proposal_state.inputs)
           /\ \A i \in DOMAIN submitted :
                 /\ submitted[i].input = i - 1
                 /\ submitted[i].input_signature
                        = Signature(keypair.value, proposal_state.transaction.id, i - 1)
           /\ (OwnKey /\ StillOpen)
                => \A i \in DOMAIN current_proposal.value.signatures :
                      keypair.value \in current_proposal.value.signatures[i]

C25_Witness ==
    /\ UpdateReturned
    /\ update_result = Ok(<<>>)
    /\ signing = Signed(TRUE)
    /\ Len(submitted) = 2
    /\ OwnKey
    /\ StillOpen
    /\ \A i \in DOMAIN current_proposal.value.signatures :
          keypair.value \in current_proposal.value.signatures[i]

\* C26: when the pool holds a key of the configuration and the proposal
\* carries no payload, or the signature of one of the inputs cannot be made,
\* process returns ChainUpdateError::Internal and no SignInput of the
\* iteration is submitted, for any input, and the service is left as it was.
C26_SigningAllOrNothing ==
    /\ [](signing.state \in {"NoPayload", "Failed"}
            => /\ UpdateReturned
               /\ update_result = ErrInternal
               /\ keypair.some
               /\ sign_input_messages = <<>>
               /\ submitted = <<>>)
    /\ [](UpdateReturned /\ update_result = ErrInternal
            => signing.state \in {"NoPayload", "Failed"})
    /\ [][signing'.state \in {"NoPayload", "Failed"} /\ signing.state = "NotRun"
            => UNCHANGED <<chain, service_state>>]_vars

C26_Witness ==
    /\ UpdateReturned
    /\ update_result = ErrInternal
    /\ signing = SigningFailed(1)
    /\ Len(proposal_state.inputs) = 2
    /\ submitted = <<>>

\* The other case of C26: the proposal carried no payload.
C26_WitnessNoPayload ==
    /\ UpdateReturned
    /\ update_result = ErrInternal
    /\ signing = NoPayload

\* The last transaction_status call of the iteration failed.
StatusQueryFailed == queries # <<>> /\ queries[Len(queries)][2] = RelayError

\* C29: an iteration calls send_transaction at most once and makes no call
\* after it; an iteration that failed in a call to the host chain or in a
\* transaction_status call has sent nothing; an iteration whose
\* send_transaction call failed returns the Relay error, which carries no
\* cursor.
C29_SendIsLast ==
    /\ [](/\ Len(sent) <= 1
          /\ sent # <<>> => Returned
          /\ (Returned /\ result.tag = "Err" /\ ~ send_error) => sent = <<>>
          /\ StatusQueryFailed => sent = <<>> /\ result = ErrRelay
          /\ send_error => Returned /\ result = ErrRelay /\ Len(sent) = 1)
    /\ [][sent # <<>>
            => /\ queries' = queries \/ queries' = <<>>
               /\ fetched' = fetched \/ fetched' = <<>>
               /\ chain_len' = chain_len \/ chain_len' = NotRead
               /\ sent' = sent \/ sent' = <<>>]_vars

\* The send of chain[1], after a status call, failed.
C29_Witness ==
    /\ Returned
    /\ Len(chain) >= 2
    /\ send_error
    /\ result = ErrRelay
    /\ sent = <<Tx(1)>>
    /\ latest_committed_tx_index = Some(0)
    /\ Len(queries) = 1

----------------------------------------------------------------------------
(* Properties of a run of the Bitcoin sync task                            *)

\* The cursor index of Some(i), and -1 for None.
CursorIndex(c) == IF c.some THEN c.value ELSE -1

\* The call of the run has returned Ok, and its record is still at hand.
Succeeded == Current /\ result.tag = "Ok"

\* C28: a successful process(Some(i)) returns Some(i) or Some(i+1); a
\* successful process(None) returns None or Some(k) with k <= chain_len - 1;
\* and in a run that gives every call the cursor the last successful call
\* returned, the cursor, once set, never decreases nor becomes None, and is
\* always below the length of the chain.
C28_CursorMonotone ==
    /\ [](Succeeded /\ latest_committed_tx_index.some
            => \E i \in {latest_committed_tx_index.value} :
                  result.value \in {Some(i), Some(i + 1)})
    /\ [](Succeeded /\ ~ latest_committed_tx_index.some
            => \/ result.value = None
               \/ /\ result.value.some
                  /\ chain_len # NotRead
                  /\ result.value.value <= chain_len - 1)
    /\ [][cursor.some => cursor'.some /\ cursor'.value >= cursor.value]_vars
    /\ [](cursor.some => cursor.value < Len(chain))
    /\ [](Succeeded => CursorIndex(result.value) >= CursorIndex(cursor))

\* A call with the cursor Some(1) has advanced to Some(2), and the caller has
\* taken the new cursor into the next call.
C28_Witness ==
    /\ cursor = Some(2)
    /\ latest_committed_tx_index = Some(2)
    /\ Succeeded
    /\ result = Ok(Some(2))
    /\ Len(chain) = 3

\* The ids the relay has acknowledged in the run so far.
AcknowledgedSoFar == acknowledged \cup Acknowledged(queries)

\* C30: in a run that starts without a cursor and gives every call the
\* cursor the last successful call returned, chain[k], k >= 1, is handed to
\* send_transaction only after the relay has reported chain[k-1] as known
\* (Mempool or Committed), and chain[0] only after the relay has reported the
\* funding transaction with confirmations.
C30_SendOrdering ==
    \A j \in DOMAIN sent :
        \E k \in 0..(Len(chain) - 1) :
            /\ sent[j] = Tx(k)
            /\ k >= 1 => Tx(k - 1).id \in AcknowledgedSoFar
            /\ k = 0 => FundingTxId \in AcknowledgedSoFar

\* chain[2] is sent again by a call that did not ask for chain[1], which the
\* relay had reported as known in an earlier call and no longer knows.
C30_Witness ==
    /\ Returned
    /\ Len(chain) = 3
    /\ latest_committed_tx_index = Some(2)
    /\ cursor = Some(2)
    /\ sent = <<Tx(2)>>
    /\ Tx(1).id \in acknowledged
    /\ relay[Tx(1).id] = Unknown

----------------------------------------------------------------------------
(* The Bitcoin sync task while the chain grows                             *)

\* The step is the answer to the first get_transaction call of
\* process(Some(i)), served when the chain has no transaction of index i.
ServedAbsent ==
    /\ pc = "p_get"
    /\ pc' # "p_get"
    /\ index >= Len(chain)

\* C33 as stated, the chain length being the one at the call: process(None)
\* and process(Some(i)) with i below it never fail with Internal and return
\* an index of the chain; process(Some(i)) with i not below it fails with
\* Internal before any call of the relay.
C33_Original ==
    /\ (Current /\ result = ErrInternal)
        => /\ latest_committed_tx_index.some
           /\ latest_committed_tx_index.value >= len_at_call
    /\ (Current /\ result.tag = "Ok" /\ result.value.some)
        => result.value.value < Len(chain)
    /\ (/\ Current
        /\ latest_committed_tx_index.some
        /\ latest_committed_tx_index.value >= len_at_call
        /\ NoTransportError)
        => /\ result = ErrInternal
           /\ queries = <<>>
           /\ sent = <<>>

\* C33: the chain growing at any point of an iteration, process(None) and
\* process(Some(i)) with i below the length of the chain at the call never
\* fail with Internal, and the index a call returns is one of the chain;
\* process(Some(i)) fails with Internal, before any call of the relay,
\* when its first get_transaction call is answered by a chain that has no
\* transaction of index i, and only then.
C33_ConcurrentGrowth ==
    /\ [](Current /\ result = ErrInternal
            => /\ latest_committed_tx_index.some
               /\ latest_committed_tx_index.value >= len_at_call
               /\ fetched = <<latest_committed_tx_index.value>>
               /\ queries = <<>>
               /\ sent = <<>>)
    /\ [](Current /\ result.tag = "Ok" /\ result.value.some
            => result.value.value < Len(chain))
    /\ [][ServedAbsent
            => /\ pc' = "idle"
               /\ result' \in {ErrInternal, ErrClient}
               /\ queries' = <<>>
               /\ sent' = <<>>]_vars
    /\ [][result' = ErrInternal /\ result # ErrInternal => ServedAbsent]_vars

\* The chain had one transaction when process(Some(0)) was called and two
\* when the call read its length: the call advanced to the new transaction.
C33_Witness ==
    /\ Current
    /\ latest_committed_tx_index = Some(0)
    /\ len_at_call = 1
    /\ chain_len = 2
    /\ result = Ok(Some(1))
    /\ sent = <<chain[2]>>

\* process(Some(1)) called on a chain of one transaction, which had two when
\* the call asked for the transaction of index 1: no Internal error.
C33_WitnessRace ==
    /\ Current
    /\ latest_committed_tx_index = Some(1)
    /\ len_at_call = 1
    /\ result # ErrInternal
    /\ NoTransportError

----------------------------------------------------------------------------
(* The run of the Bitcoin sync task in stable surroundings                 *)

\* Every chain transaction was sent to the relay in the run or is known by
\* it.
EverySent ==
    \A k \in 0..(Len(chain) - 1) :
        \/ Tx(k).id \in handed \cup Handed
        \/ is_known(relay[Tx(k).id])

\* The tail of the chain is known and the iteration sends nothing.
TailKnownAndQuiet ==
    /\ sent = <<>>
    /\ chain # <<>> => is_known(relay[Tx(Len(chain) - 1).id])

\* C31: in a run where the caller feeds each returned cursor into the next
\* iteration, the chain is finite with a committed funding transaction, RPC
\* calls eventually succeed and the relay eventually and permanently
\* reports every transaction it was sent as known, every chain transaction
\* is eventually sent to the relay or known by it, and the run reaches for
\* good a state where the tail of the chain is known and nothing more is
\* sent.
C31_EventuallySynced == <>[](stable /\ EverySent /\ TailKnownAndQuiet)

\* The relay knows an anchoring transaction only together with the one it
\* spends: the transactions it knows are chain[0], ..., chain[p-1].
PrefixKnown ==
    \A k \in 1..(Len(chain) - 1) :
        is_known(relay[chain[k + 1].id]) => is_known(relay[chain[k].id])

\* The run of C31 does get there when the relay, from some point on, knows
\* the transactions of a prefix of the chain only.
SyncedWhenPrefixKnown ==
    <>[]PrefixKnown => <>[](stable /\ EverySent /\ TailKnownAndQuiet)

\* A stable run of a cold start on a chain whose tail the relay knows and
\* whose first transaction it does not know and was never sent.
StuckRun ==
    /\ stable
    /\ Len(chain) >= 2
    /\ cursor = None
    /\ result = Ok(None)
    /\ handed = {}
    /\ relay[chain[1].id] = Unknown
    /\ is_known(relay[chain[Len(chain)].id])

====
